---- MODULE Spec2Model ----
(***************************************************************************)
(* A model of the mmiai request router: the lazy MCP connection manager    *)
(* (McpConnectionManager), the classification post-processing              *)
(* (validateClassification), the chat workflow (classify-intent, branch,   *)
(* map, quality-check, synthesize-response) and the /chat handler.         *)
(*                                                                         *)
(* Every `await` of the TypeScript source is a yield point: the code       *)
(* between two awaits of one async function is one action.                 *)
(***************************************************************************)
EXTENDS Integers, Sequences, FiniteSets, TLC

(***************************************************************************)
(* Bounds of the model.                                                    *)
(***************************************************************************)
\* The clock advances in steps of TickMs milliseconds.
TickMs == 30000
\* Steps of TickMs the clock takes in one behaviour.
MaxTicks == 2
\* Idle periods of idleTtlMs (nothing but the sweep timer runs) in one behaviour.
MaxIdlePeriods == 1
\* getToolsets calls made in one behaviour.
MaxCalls == 3
\* MCPClient / fallback clients constructed in one behaviour.
MaxClients == 3
\* The longest targets array of a classifier output.
MaxTargets == 2
\* The requests one behaviour sends to the /chat route.
MaxRequests == 3
\* The runs the run store holds in one behaviour of the /chat route over the store.
MaxRuns == 2
\* The wrapped execute calls made in one behaviour of the tool cache.
MaxToolCalls == 2
\* The workers the classifier and the user name as targets while a run is driven.
RunTargetIds == {"atlassian", "datahub"}

(***************************************************************************)
(* The MCP registry (mcp-registry.ts).                                     *)
(***************************************************************************)
MCP_REGISTRY ==
  << [id |-> "atlassian",     agentId |-> "atlassianAgent",    requiresFallback |-> FALSE],
     [id |-> "google-search", agentId |-> "googleSearchAgent", requiresFallback |-> FALSE],
     [id |-> "datahub",       agentId |-> "dataHubAgent",      requiresFallback |-> TRUE],
     [id |-> "data-analyst",  agentId |-> "dataAnalystAgent",  requiresFallback |-> FALSE] >>

\* getAllMcpIds(): the registry ids, in registry order.
getAllMcpIds == [i \in 1..Len(MCP_REGISTRY) |-> MCP_REGISTRY[i].id]

AllMcpIdSet == {MCP_REGISTRY[i].id : i \in 1..Len(MCP_REGISTRY)}

\* An id no registry entry has (getRegistryEntry returns undefined).
UnknownId == "unknown-mcp"

NoEntry == [id |-> "", agentId |-> "", requiresFallback |-> FALSE]

\* getRegistryEntry(id): the first entry with that id, or NoEntry (undefined).
getRegistryEntry(id) ==
  IF id \in AllMcpIdSet
    THEN MCP_REGISTRY[CHOOSE i \in 1..Len(MCP_REGISTRY) : MCP_REGISTRY[i].id = id]
    ELSE NoEntry

(***************************************************************************)
(* Connection manager: constants.                                          *)
(***************************************************************************)
\* private idleTtlMs = 5 * 60 * 1000
idleTtlMs == 5 * 60 * 1000
\* setInterval(() => this.cleanupIdle(), 60 * 1000)
cleanupIntervalMs == 60 * 1000

Callers == {"c1", "c2"}

\* What the environment makes of MCP_ATLASSIAN_URL / CONFLUENCE_URL:
\* a server definition, null (nothing configured), or `new URL(...)` throwing.
CfgOutcomes == {"def", "null", "throws"}

VARIABLES
  \* --- McpConnectionManager ---
  connections,   \* Map<string, CachedConnection> as a sequence in insertion order
  fallbackCache, \* FallbackToolsCache | null
  cleanupTimer,  \* TRUE while the setInterval handle is live
  now,           \* Date.now()
  nTicks,        \* clock steps taken
  nIdle,         \* idle periods taken
  lastSweep,     \* the time the interval timer fired last
  atlassianCfg,  \* the environment's outcome for buildAtlassianServer()
  clients,       \* every client constructed so far: <<[id, state]>>
  call,          \* the getToolsets calls in flight, per caller
  nCalls,        \* getToolsets calls started so far
  sweep,         \* the cleanupIdle invocation in flight
  shutdown,      \* the disconnectAll invocation
  poolLog        \* what the last step of the manager did (observation only)

poolVars == << connections, fallbackCache, cleanupTimer, now, nTicks, nIdle, lastSweep, atlassianCfg,
               clients, call, nCalls, sweep, shutdown, poolLog >>

VARIABLES
  \* --- validateClassification (classify-intent.ts) ---
  vcResult,        \* the classifier output handed to validateClassification
  vcActiveMcpIds,  \* its activeMcpIds argument
  vcReturned       \* what it returned (NoPlan before the call)

classifyVars == << vcResult, vcActiveMcpIds, vcReturned >>

VARIABLES
  \* --- the /chat route and one run of chatWorkflow ---
  pc,            \* the step the run is about to execute ("idle": no request in progress)
  reqKind,       \* the request in progress: "none", "start", "new" or "resume"
  reqActive,     \* the request's activeMcpIds (requestContext)
  runId,         \* the id of the latest run (0: none yet)
  runStatus,     \* "none", "running", "suspended", "success" or "failed"
  suspendedStep, \* the step id the run's snapshot holds as suspended ("" if none)
  wfState,       \* the workflow state: [executionTargets, executionMode]
  plan,          \* the output of classify-intent, the branch's input
  branchOut,     \* the output of .branch()
  gateIn,        \* the input of quality-check, i.e. the output of .map()
  gateOut,       \* the output of quality-check, the input of synthesize-response
  resumeData,    \* the resumeData being delivered to the resumed step
  payload,       \* the suspend payload of the latest suspension
  invokedWorkers, \* the workers invoked while serving the request, in order
  reqSteps,      \* the steps executed while serving the request
  lastResume,    \* how the latest resume request was addressed
  response,      \* the latest response of the route
  nReq           \* requests served so far

runVars == << pc, reqKind, reqActive, runId, runStatus, suspendedStep, wfState, plan,
              branchOut, gateIn, gateOut, resumeData, payload, invokedWorkers, reqSteps,
              lastResume, response, nReq >>

VARIABLES
  \* --- the retry loop around classify -> execute -> quality gate ---
  loopPc,           \* "planning", "executing", "scoring", "done" or "synthesized"
  iterationCount,   \* cycles completed so far in this run
  previousFeedback, \* the workflow state's previousFeedback (Undefined when not set)
  loopPlan,         \* the plan of the cycle in progress
  loopResult,       \* the result being scored, then the gate's output
  feedbackSeen,     \* the previousFeedback each cycle's planning read, in order
  loopScores,       \* the score of each completed cycle (NoScore: not scored)
  loopPrompts       \* the prompts the classifier was called with: <<[iteration, path, prompt]>>

loopVars == << loopPc, iterationCount, previousFeedback, loopPlan, loopResult,
               feedbackSeen, loopScores, loopPrompts >>

VARIABLES
  \* --- one execution of agentStep, await by await ---
  asPc,          \* "parked", "start", "running", "returned" or "threw"
  asInput,       \* inputData: the plan, with the kind of query each target has
  asActive,      \* activeMcpIds
  asTargets,     \* activeTargets
  asStage,       \* per position of activeTargets: how far its invocation is
  asPrevious,    \* previousResult
  asAllResults,  \* allResults
  asParts,       \* per position: what the Promise.all callback resolved with
  asPrompts,     \* the calls of agent.generate so far: <<[idx, target, prompt]>>
  asAcquired,    \* the ids getToolsets was called with, in order
  asTexts,       \* per position: result.text of its invocation (<< >> if none)
  asState,       \* the workflow state
  asResult       \* what execute returned (Undefined before it returns)

agentVars == << asPc, asInput, asActive, asTargets, asStage, asPrevious, asAllResults,
                asParts, asPrompts, asAcquired, asTexts, asState, asResult >>

VARIABLES
  \* --- one execution of quality-check, and its resume ---
  qcPc,           \* "parked", "enter", "suggesting", "suspended", "returned" or "bailed"
  qcInput,        \* inputData: the result handed to the gate
  qcActive,       \* activeMcpIds
  qcState,        \* the workflow state agentStep left
  qcProducers,    \* the workers invoked to produce inputData, in order
  qcScore,        \* what computeQualityScore returned to this execution (NoScore: not called)
  qcSuggestThrew, \* TRUE when generateSuggestions took its catch block
  qcPayload,      \* the suspend payload
  qcResume,       \* resumeData
  qcChosen,       \* the suggestion the user clicked (NoSuggestion if none)
  qcCalls,        \* the worker invocations of the resume path: <<[worker, prompt, outcome]>>
  qcOutput        \* what execute returned, or bail() was given (Undefined before)

gateVars == << qcPc, qcInput, qcActive, qcState, qcProducers, qcScore, qcSuggestThrew,
               qcPayload, qcResume, qcChosen, qcCalls, qcOutput >>

VARIABLES
  \* --- the /chat route over the stored runs of chatWorkflow ---
  chRuns,     \* the workflow's stored runs, by run id (1, 2, ...)
  chResponse, \* the latest response of the route
  chLast      \* the latest request: its body and the id of the run it created (0: none)

chatVars == << chRuns, chResponse, chLast >>

VARIABLES
  \* --- user_mcp_activations (user-activation.ts) ---
  activations, \* the table's rows: [user_id, mcp_id, active], one per (user_id, mcp_id)
  actLast      \* the latest setUserMcpActivation call and whether it threw

activationVars == << activations, actLast >>

VARIABLES
  \* --- withToolCache over Redis ---
  redisStore, \* the keys Redis holds, each with the value stored under it
  tcCalls,    \* wrapped execute calls made so far
  tcLast      \* the latest wrapped execute call: tool, input, hit or not, what it returned

toolCacheVars == << redisStore, tcCalls, tcLast >>

vars == << poolVars, classifyVars, runVars, loopVars, agentVars, gateVars, chatVars,
           activationVars, toolCacheVars >>

\* The variables each component leaves alone.
otherThanPool == << classifyVars, runVars, loopVars, agentVars, gateVars, chatVars,
  activationVars, toolCacheVars >>
otherThanClassify == << poolVars, runVars, loopVars, agentVars, gateVars, chatVars,
  activationVars, toolCacheVars >>
otherThanRun == << poolVars, classifyVars, loopVars, agentVars, gateVars, chatVars,
  activationVars, toolCacheVars >>
otherThanLoop == << poolVars, classifyVars, runVars, agentVars, gateVars, chatVars,
  activationVars, toolCacheVars >>
otherThanAgent == << poolVars, classifyVars, runVars, loopVars, gateVars, chatVars,
  activationVars, toolCacheVars >>
otherThanGate == << poolVars, classifyVars, runVars, loopVars, agentVars, chatVars,
  activationVars, toolCacheVars >>
otherThanChat == << poolVars, classifyVars, runVars, loopVars, agentVars, gateVars,
  activationVars, toolCacheVars >>
otherThanActivation == << poolVars, classifyVars, runVars, loopVars, agentVars, gateVars,
  chatVars, toolCacheVars >>
otherThanToolCache == << poolVars, classifyVars, runVars, loopVars, agentVars, gateVars,
  chatVars, activationVars >>

(***************************************************************************)
(* Map<string, CachedConnection>: a JavaScript Map keeps insertion order,  *)
(* set() on a present key replaces the value in place, and a live iterator *)
(* (for..of) sees deletions and insertions made while it runs.             *)
(***************************************************************************)
NoConn == [id |-> "", client |-> 0, lastUsed |-> 0]
NoCache == [client |-> 0, lastUsed |-> 0]

ConnIndex(conns, id) ==
  IF \E i \in 1..Len(conns) : conns[i].id = id
    THEN CHOOSE i \in 1..Len(conns) : conns[i].id = id
    ELSE 0

MapHas(conns, id) == ConnIndex(conns, id) # 0

MapGet(conns, id) == IF MapHas(conns, id) THEN conns[ConnIndex(conns, id)] ELSE NoConn

MapSet(conns, id, client, lastUsed) ==
  LET e == [id |-> id, client |-> client, lastUsed |-> lastUsed]
  IN  IF MapHas(conns, id)
        THEN [conns EXCEPT ![ConnIndex(conns, id)] = e]
        ELSE Append(conns, e)

MapDelete(conns, id) ==
  LET k == ConnIndex(conns, id)
  IN  IF k = 0 THEN conns
      ELSE [i \in 1..(Len(conns) - 1) |-> IF i < k THEN conns[i] ELSE conns[i + 1]]

\* The position of a live iterator that has consumed idx entries, after delete(id).
IterAfterDelete(conns, id, idx) ==
  LET k == ConnIndex(conns, id)
  IN  IF k # 0 /\ k <= idx THEN idx - 1 ELSE idx

(***************************************************************************)
(* Clients.                                                                *)
(***************************************************************************)
NewClient(id) == Append(clients, [id |-> id, state |-> "building"])

SetClientState(cs, k, st) == [cs EXCEPT ![k].state = st]

NoRet == [kind |-> "none", client |-> 0]
EmptyToolsets == [kind |-> "empty", client |-> 0]
Threw == [kind |-> "threw", client |-> 0]
ToolsetsOf(k) == [kind |-> "toolsets", client |-> k]

IdleCall == [pc |-> "idle", mcpId |-> "", client |-> 0, ret |-> NoRet]

Log(op, id, client, idle) == [op |-> op, id |-> id, client |-> client, idle |-> idle]

\* entry.buildServerDef() for a registry id (mcp-registry.ts).
buildServerDef(id) ==
  CASE id = "atlassian"     -> atlassianCfg
    [] id = "google-search" -> "def"
    [] id = "datahub"       -> "def"
    [] OTHER                -> "null"

(***************************************************************************)
(* connect(mcpId, entry), up to its first await: buildServerDef() runs     *)
(* outside the try block, new MCPClient and listToolsets() inside it.      *)
(* cs is the list of clients as the caller leaves it.                      *)
(***************************************************************************)
ConnectSync(c, id, cs) ==
  LET def == buildServerDef(id)
  IN  CASE def = "null" ->
             /\ call' = [call EXCEPT ![c] = [pc |-> "done", mcpId |-> id, client |-> 0,
                                             ret |-> EmptyToolsets]]
             /\ poolLog' = Log("notConfigured", id, 0, 0)
             /\ clients' = cs
        [] def = "throws" ->
             /\ call' = [call EXCEPT ![c] = [pc |-> "done", mcpId |-> id, client |-> 0,
                                             ret |-> Threw]]
             /\ poolLog' = Log("threw", id, 0, 0)
             /\ clients' = cs
        [] OTHER ->
             /\ Len(cs) < MaxClients
             /\ clients' = Append(cs, [id |-> id, state |-> "building"])
             /\ call' = [call EXCEPT ![c] = [pc |-> "connecting", mcpId |-> id,
                                             client |-> Len(cs) + 1, ret |-> NoRet]]
             /\ poolLog' = Log("build", id, Len(cs) + 1, 0)

(***************************************************************************)
(* getToolsets(mcpId), up to its first await.                              *)
(***************************************************************************)
GetToolsets(c, id) ==
  /\ call[c].pc \in {"idle", "done"}
  /\ nCalls < MaxCalls
  /\ nCalls' = nCalls + 1
  /\ LET entry == getRegistryEntry(id)
         cached == MapGet(connections, id)
     IN  CASE entry = NoEntry ->
                /\ call' = [call EXCEPT ![c] = [pc |-> "done", mcpId |-> id, client |-> 0,
                                                ret |-> EmptyToolsets]]
                /\ poolLog' = Log("unknownId", id, 0, 0)
                /\ UNCHANGED << connections, fallbackCache, clients >>
           [] entry # NoEntry /\ entry.requiresFallback ->
                \* getFallbackToolsets
                IF fallbackCache # NoCache
                  THEN /\ fallbackCache' = [fallbackCache EXCEPT !.lastUsed = now]
                       /\ call' = [call EXCEPT ![c] = [pc |-> "done", mcpId |-> id,
                                     client |-> fallbackCache.client,
                                     ret |-> ToolsetsOf(fallbackCache.client)]]
                       /\ poolLog' = Log("fallbackHit", id, fallbackCache.client,
                                         now - fallbackCache.lastUsed)
                       /\ UNCHANGED << connections, clients >>
                  ELSE /\ Len(clients) < MaxClients
                       /\ clients' = NewClient(id)
                       /\ call' = [call EXCEPT ![c] = [pc |-> "fbBuilding", mcpId |-> id,
                                     client |-> Len(clients) + 1, ret |-> NoRet]]
                       /\ poolLog' = Log("build", id, Len(clients) + 1, 0)
                       /\ UNCHANGED << connections, fallbackCache >>
           [] entry # NoEntry /\ ~entry.requiresFallback /\ cached # NoConn ->
                /\ connections' = MapSet(connections, id, cached.client, now)
                /\ call' = [call EXCEPT ![c] = [pc |-> "listing", mcpId |-> id,
                                                client |-> cached.client, ret |-> NoRet]]
                /\ poolLog' = Log("cacheHit", id, cached.client, now - cached.lastUsed)
                /\ UNCHANGED << fallbackCache, clients >>
           [] OTHER ->
                /\ ConnectSync(c, id, clients)
                /\ UNCHANGED << connections, fallbackCache >>
  /\ UNCHANGED << cleanupTimer, now, nTicks, nIdle, lastSweep, atlassianCfg, sweep, shutdown >>
  /\ UNCHANGED otherThanPool

\* getToolsets: `await cached.client.listToolsets()` resolves.
ListToolsetsOk(c) ==
  /\ call[c].pc = "listing"
  /\ call' = [call EXCEPT ![c].pc = "done", ![c].ret = ToolsetsOf(call[c].client)]
  /\ poolLog' = Log("handOut", call[c].mcpId, call[c].client, 0)
  /\ UNCHANGED << connections, fallbackCache, cleanupTimer, now, nTicks, nIdle, lastSweep, atlassianCfg,
                  clients, nCalls, sweep, shutdown >>
  /\ UNCHANGED otherThanPool

\* getToolsets: `await cached.client.listToolsets()` rejects; the catch block calls
\* disconnectOne(mcpId), which looks the id up again and awaits disconnect() of the
\* client it finds; with no entry it returns at once and connect() follows.
ListToolsetsThrows(c) ==
  /\ call[c].pc = "listing"
  /\ LET conn == MapGet(connections, call[c].mcpId)
     IN  IF conn # NoConn
           THEN /\ call' = [call EXCEPT ![c].pc = "staleDisconnect", ![c].client = conn.client]
                /\ poolLog' = Log("stale", call[c].mcpId, conn.client, 0)
                /\ UNCHANGED clients
           ELSE ConnectSync(c, call[c].mcpId, clients)
  /\ UNCHANGED << connections, fallbackCache, cleanupTimer, now, nTicks, nIdle, lastSweep,
                  atlassianCfg, nCalls, sweep, shutdown >>
  /\ UNCHANGED otherThanPool

\* disconnectOne, after `await conn.client.disconnect()` (resolved or rejected):
\* this.connections.delete(mcpId); then getToolsets goes on to connect(mcpId, entry).
StaleDisconnected(c) ==
  /\ call[c].pc = "staleDisconnect"
  /\ connections' = MapDelete(connections, call[c].mcpId)
  /\ sweep' = [sweep EXCEPT !.idx = IterAfterDelete(connections, call[c].mcpId, sweep.idx)]
  /\ ConnectSync(c, call[c].mcpId, SetClientState(clients, call[c].client, "disconnected"))
  /\ UNCHANGED << fallbackCache, cleanupTimer, now, nTicks, nIdle, lastSweep, atlassianCfg,
                  nCalls, shutdown >>
  /\ UNCHANGED otherThanPool

\* connect: `await client.listToolsets()` resolves; this.connections.set(mcpId, ...).
ConnectOk(c) ==
  /\ call[c].pc = "connecting"
  /\ connections' = MapSet(connections, call[c].mcpId, call[c].client, now)
  /\ clients' = SetClientState(clients, call[c].client, "connected")
  /\ call' = [call EXCEPT ![c].pc = "done", ![c].ret = ToolsetsOf(call[c].client)]
  /\ poolLog' = Log("connected", call[c].mcpId, call[c].client, 0)
  /\ UNCHANGED << fallbackCache, cleanupTimer, now, nTicks, nIdle, lastSweep, atlassianCfg, nCalls, sweep,
                  shutdown >>
  /\ UNCHANGED otherThanPool

\* connect: `await client.listToolsets()` rejects; the catch block returns {}.
ConnectFails(c) ==
  /\ call[c].pc = "connecting"
  /\ clients' = SetClientState(clients, call[c].client, "failed")
  /\ call' = [call EXCEPT ![c].pc = "done", ![c].client = 0, ![c].ret = EmptyToolsets]
  /\ poolLog' = Log("connectFailed", call[c].mcpId, call[c].client, 0)
  /\ UNCHANGED << connections, fallbackCache, cleanupTimer, now, nTicks, nIdle, lastSweep, atlassianCfg,
                  nCalls, sweep, shutdown >>
  /\ UNCHANGED otherThanPool

\* getFallbackToolsets: `await createDatahubFallbackTools()` resolves.
FallbackOk(c) ==
  /\ call[c].pc = "fbBuilding"
  /\ fallbackCache' = [client |-> call[c].client, lastUsed |-> now]
  /\ clients' = SetClientState(clients, call[c].client, "connected")
  /\ call' = [call EXCEPT ![c].pc = "done", ![c].ret = ToolsetsOf(call[c].client)]
  /\ poolLog' = Log("connected", call[c].mcpId, call[c].client, 0)
  /\ UNCHANGED << connections, cleanupTimer, now, nTicks, nIdle, lastSweep, atlassianCfg, nCalls, sweep,
                  shutdown >>
  /\ UNCHANGED otherThanPool

\* getFallbackToolsets: `await createDatahubFallbackTools()` rejects.
FallbackFails(c) ==
  /\ call[c].pc = "fbBuilding"
  /\ clients' = SetClientState(clients, call[c].client, "failed")
  /\ call' = [call EXCEPT ![c].pc = "done", ![c].client = 0, ![c].ret = EmptyToolsets]
  /\ poolLog' = Log("connectFailed", call[c].mcpId, call[c].client, 0)
  /\ UNCHANGED << connections, fallbackCache, cleanupTimer, now, nTicks, nIdle, lastSweep, atlassianCfg,
                  nCalls, sweep, shutdown >>
  /\ UNCHANGED otherThanPool

(***************************************************************************)
(* cleanupIdle(): `now` is read once; the for..of loop runs synchronously  *)
(* up to the first entry that is idle, whose disconnect() it then awaits.  *)
(***************************************************************************)
IdleSweep == [pc |-> "idle", now |-> 0, idx |-> 0, id |-> "", client |-> 0]

IsIdle(snap, lastUsed) == snap - lastUsed > idleTtlMs

\* The loop over conns from iterator position idx on, up to the next await (or the
\* end of cleanupIdle); fb is the fallback cache.
SweepScan(conns, fb, snap, idx) ==
  LET idle == {j \in (idx + 1)..Len(conns) : IsIdle(snap, conns[j].lastUsed)}
  IN  IF idle # {}
        THEN LET j == CHOOSE k \in idle : \A m \in idle : k <= m
             IN  [pc |-> "disconnecting", now |-> snap, idx |-> j,
                  id |-> conns[j].id, client |-> conns[j].client]
        ELSE IF fb # NoCache /\ IsIdle(snap, fb.lastUsed)
               THEN [pc |-> "fbCleanup", now |-> snap, idx |-> Len(conns),
                     id |-> "datahub", client |-> fb.client]
               ELSE IdleSweep

SweepDue == cleanupTimer /\ now - lastSweep >= cleanupIntervalMs

\* The interval timer fires: cleanupIdle() starts.
CleanupIdle ==
  /\ SweepDue
  /\ sweep.pc = "idle"
  /\ lastSweep' = now
  /\ sweep' = SweepScan(connections, fallbackCache, now, 0)
  /\ poolLog' = Log("sweep", "", 0, 0)
  /\ UNCHANGED << connections, fallbackCache, cleanupTimer, now, nTicks, nIdle, atlassianCfg,
                  clients, call, nCalls, shutdown >>
  /\ UNCHANGED otherThanPool

\* disconnectOne called by the sweep, after `await conn.client.disconnect()`:
\* this.connections.delete(mcpId); then the loop of cleanupIdle goes on.
SweepDisconnected ==
  /\ sweep.pc = "disconnecting"
  /\ clients' = SetClientState(clients, sweep.client, "disconnected")
  /\ connections' = MapDelete(connections, sweep.id)
  /\ sweep' = SweepScan(connections', fallbackCache, sweep.now,
                        IterAfterDelete(connections, sweep.id, sweep.idx))
  /\ poolLog' = IF MapHas(connections, sweep.id)
                  THEN Log("sweepDelete", sweep.id, MapGet(connections, sweep.id).client,
                           now - MapGet(connections, sweep.id).lastUsed)
                  ELSE Log("sweepDeleteNone", sweep.id, 0, 0)
  /\ UNCHANGED << fallbackCache, cleanupTimer, now, nTicks, nIdle, lastSweep, atlassianCfg,
                  call, nCalls, shutdown >>
  /\ UNCHANGED otherThanPool

\* cleanupIdle, after `await this.fallbackCache.cleanup()`: this.fallbackCache = null.
SweepFallbackCleaned ==
  /\ sweep.pc = "fbCleanup"
  /\ clients' = SetClientState(clients, sweep.client, "disconnected")
  /\ fallbackCache' = NoCache
  /\ sweep' = IdleSweep
  /\ poolLog' = IF fallbackCache # NoCache
                  THEN Log("sweepFallbackDelete", "datahub", fallbackCache.client,
                           now - fallbackCache.lastUsed)
                  ELSE Log("sweepDeleteNone", "datahub", 0, 0)
  /\ UNCHANGED << connections, cleanupTimer, now, nTicks, nIdle, lastSweep, atlassianCfg, call, nCalls,
                  shutdown >>
  /\ UNCHANGED otherThanPool

(***************************************************************************)
(* disconnectAll(): clearInterval, one disconnectOne per cached key (each  *)
(* calls disconnect() at once and deletes its key when that settles), the  *)
(* fallback cleanup, and `await Promise.allSettled(disconnects)`.          *)
(***************************************************************************)
IdleShutdown == [pc |-> "idle", pending |-> {}, fbPending |-> 0, cached |-> {}]

\* disconnectAll returns once every promise it collected has settled.
Settled(pending, fbPending) == IF pending = {} /\ fbPending = 0 THEN "returned" ELSE "waiting"

ShutdownLog(pending, fbPending, op, id, client) ==
  IF Settled(pending, fbPending) = "returned"
    THEN Log("disconnectAllReturned", id, client, 0)
    ELSE Log(op, id, client, 0)

DisconnectAll ==
  /\ shutdown.pc = "idle"
  /\ cleanupTimer' = FALSE
  /\ LET pending == {[id |-> connections[i].id, client |-> connections[i].client] :
                       i \in 1..Len(connections)}
     IN  /\ shutdown' = [pc |-> Settled(pending, fallbackCache.client),
                         pending |-> pending,
                         fbPending |-> fallbackCache.client,
                         cached |-> {p.client : p \in pending}
                                      \cup (IF fallbackCache # NoCache
                                              THEN {fallbackCache.client} ELSE {})]
         /\ poolLog' = ShutdownLog(pending, fallbackCache.client, "disconnectAll", "", 0)
  /\ fallbackCache' = NoCache
  /\ UNCHANGED << connections, now, nTicks, nIdle, lastSweep, atlassianCfg, clients, call,
                  nCalls, sweep >>
  /\ UNCHANGED otherThanPool

\* One disconnectOne of disconnectAll, after `await conn.client.disconnect()`:
\* this.connections.delete(mcpId).
DisconnectAllOne(p) ==
  /\ shutdown.pc = "waiting"
  /\ p \in shutdown.pending
  /\ clients' = SetClientState(clients, p.client, "disconnected")
  /\ connections' = MapDelete(connections, p.id)
  /\ sweep' = [sweep EXCEPT !.idx = IterAfterDelete(connections, p.id, sweep.idx)]
  /\ shutdown' = [shutdown EXCEPT !.pending = shutdown.pending \ {p},
                                  !.pc = Settled(shutdown.pending \ {p}, shutdown.fbPending)]
  /\ poolLog' = ShutdownLog(shutdown.pending \ {p}, shutdown.fbPending, "shutdownDelete",
                            p.id, MapGet(connections, p.id).client)
  /\ UNCHANGED << fallbackCache, cleanupTimer, now, nTicks, nIdle, lastSweep, atlassianCfg,
                  call, nCalls >>
  /\ UNCHANGED otherThanPool

\* The fallback cleanup() of disconnectAll settles.
DisconnectAllFallback ==
  /\ shutdown.pc = "waiting"
  /\ shutdown.fbPending # 0
  /\ clients' = SetClientState(clients, shutdown.fbPending, "disconnected")
  /\ shutdown' = [shutdown EXCEPT !.fbPending = 0,
                                  !.pc = Settled(shutdown.pending, 0)]
  /\ poolLog' = ShutdownLog(shutdown.pending, 0, "shutdownFallbackClosed", "datahub",
                            shutdown.fbPending)
  /\ UNCHANGED << connections, fallbackCache, cleanupTimer, now, nTicks, nIdle, lastSweep,
                  atlassianCfg, call, nCalls, sweep >>
  /\ UNCHANGED otherThanPool

(***************************************************************************)
(* The clock.  Time passes between operations: every interleaving of the   *)
(* await points is explored at one instant, and a due sweep starts before  *)
(* the clock moves on.                                                     *)
(***************************************************************************)
Quiescent ==
  /\ \A c \in Callers : call[c].pc \in {"idle", "done"}
  /\ sweep.pc = "idle"
  /\ shutdown.pc # "waiting"

Tick ==
  /\ nTicks < MaxTicks
  /\ Quiescent
  /\ ~SweepDue
  /\ now' = now + TickMs
  /\ nTicks' = nTicks + 1
  /\ poolLog' = Log("tick", "", 0, 0)
  /\ UNCHANGED << connections, fallbackCache, cleanupTimer, nIdle, lastSweep, atlassianCfg,
                  clients, call, nCalls, sweep, shutdown >>
  /\ UNCHANGED otherThanPool

\* The last time before t at which the interval timer fires.
LastFiringBefore(t) ==
  lastSweep + cleanupIntervalMs * ((t - lastSweep - 1) \div cleanupIntervalMs)

\* Nothing calls the manager for idleTtlMs.  The sweeps that fire in between are
\* taken here when they find nothing idle (they then reach no await and change
\* nothing); a sweep that would evict is left to run step by step after Tick.
IdlePeriod ==
  /\ nIdle < MaxIdlePeriods
  /\ Quiescent
  /\ ~SweepDue
  /\ now' = now + idleTtlMs
  /\ nIdle' = nIdle + 1
  /\ IF cleanupTimer
       THEN /\ lastSweep' = LastFiringBefore(now + idleTtlMs)
            /\ \A i \in 1..Len(connections) : ~IsIdle(lastSweep', connections[i].lastUsed)
            /\ fallbackCache # NoCache => ~IsIdle(lastSweep', fallbackCache.lastUsed)
       ELSE lastSweep' = lastSweep
  /\ poolLog' = Log("tick", "", 0, 0)
  /\ UNCHANGED << connections, fallbackCache, cleanupTimer, nTicks, atlassianCfg, clients,
                  call, nCalls, sweep, shutdown >>
  /\ UNCHANGED otherThanPool

\* The manager before any operation, with a configured environment.
PoolParked ==
  /\ connections = << >>
  /\ fallbackCache = NoCache
  /\ cleanupTimer = TRUE
  /\ now = 0
  /\ nTicks = 0
  /\ nIdle = 0
  /\ lastSweep = 0
  /\ atlassianCfg = "def"
  /\ clients = << >>
  /\ call = [c \in Callers |-> IdleCall]
  /\ nCalls = 0
  /\ sweep = IdleSweep
  /\ shutdown = IdleShutdown
  /\ poolLog = Log("init", "", 0, 0)

(***************************************************************************)
(* Classification output (classificationOutputSchema) and its validation.  *)
(* Strings are sequences of tokens; a record of queries is the set of its  *)
(* keys.                                                                   *)
(***************************************************************************)
\* A piece of text: what it is and the worker it is about.
Tok(t, of) == [t |-> t, of |-> of]

PlanTypes == {"simple", "agent", "clarify", "ambiguous"}
ExecutionModes == {"parallel", "sequential"}

NoPlan == [type |-> "none", targets |-> << >>, queries |-> {}, reasoning |-> << >>,
           executionMode |-> "parallel"]

Range(seq) == {seq[i] : i \in 1..Len(seq)}

\* targets: z.array(z.string()), here the arrays of at most MaxTargets registry ids.
TargetArrays ==
  UNION {[1..n -> AllMcpIdSet] : n \in 0..MaxTargets}

\* What the classifier agent may answer (result.object).
ClassifierOutputs ==
  {[type |-> ty, targets |-> tg, queries |-> q, reasoning |-> <<Tok("reasoning", "")>>,
    executionMode |-> em] :
     ty \in PlanTypes, tg \in TargetArrays, q \in {{}, AllMcpIdSet}, em \in ExecutionModes}

\* result.targets.filter((t) => activeMcpIds.includes(t))
FilterTargets(targets, activeMcpIds) == SelectSeq(targets, LAMBDA t : t \in activeMcpIds)

\* validateClassification without the downgrade of a plan left with no target.
validateClassification_KeepsAgent(result, activeMcpIds) ==
  IF result.type # "agent"
    THEN result
    ELSE [result EXCEPT !.targets = FilterTargets(result.targets, activeMcpIds)]

validateClassification(result, activeMcpIds) ==
  IF result.type # "agent"
    THEN result
    ELSE LET filteredTargets == FilterTargets(result.targets, activeMcpIds)
         IN  IF Len(filteredTargets) = 0
               THEN [result EXCEPT !.type = "simple",
                                   !.targets = << >>,
                                   !.queries = {},
                                   !.reasoning = result.reasoning \o <<Tok("allTargetsInactive", "")>>]
               ELSE [result EXCEPT !.targets = filteredTargets]

\* No value (undefined).
Undefined == [undefined |-> TRUE]

IsUndefined(v) == "undefined" \in DOMAIN v

\* A string held where there may be none (previousFeedback: z.string().optional()).
Defined(text) == [text |-> text]

\* classifyMessage without the [PREVIOUS FEEDBACK] section.
classifyPrompt_NoFeedback(message, activeMcpIds, previousFeedbackArg) ==
  message \o <<Tok("availableAgents", "")>>
          \o [i \in 1..Len(FilterTargets(getAllMcpIds, activeMcpIds)) |->
                Tok("agentDescription", FilterTargets(getAllMcpIds, activeMcpIds)[i])]
          \o <<Tok("important", "")>>

\* dynamicPrompt of classifyMessage: the message, the descriptions of the enabled
\* workers, the [PREVIOUS FEEDBACK] section when previousFeedback is a non-empty string.
classifyPrompt(message, activeMcpIds, previousFeedbackArg) ==
  message \o <<Tok("availableAgents", "")>>
          \o [i \in 1..Len(FilterTargets(getAllMcpIds, activeMcpIds)) |->
                Tok("agentDescription", FilterTargets(getAllMcpIds, activeMcpIds)[i])]
          \o (IF ~IsUndefined(previousFeedbackArg) /\ Len(previousFeedbackArg.text) > 0
                THEN <<Tok("previousFeedback", "")>> \o previousFeedbackArg.text
                ELSE << >>)
          \o <<Tok("important", "")>>

\* classifyMessage hands the classifier's answer and activeMcpIds to validateClassification.
ValidateClassification ==
  /\ vcReturned = NoPlan
  /\ vcReturned' = validateClassification(vcResult, vcActiveMcpIds)
  /\ UNCHANGED << vcResult, vcActiveMcpIds >>
  /\ UNCHANGED otherThanClassify

ClassifyParked ==
  /\ vcResult = NoPlan
  /\ vcActiveMcpIds = {}
  /\ vcReturned = NoPlan

(***************************************************************************)
(* The steps of chatWorkflow as functions of their input.                  *)
(***************************************************************************)
\* AgentResult (agentResultSchema).
AgentResult(source, content, success) ==
  [source |-> source, content |-> content, success |-> success]

\* The user's message (getInitData().message).
originalMessage == <<Tok("message", "")>>

\* What one worker invocation (getToolsets, then agent.generate) may do: answer with
\* text, with the empty string, with white space only, or throw.
WorkerOutcomes == {"ok", "empty", "blank", "throws"}

\* result.text of an invocation that returned.
WorkerText(target, outcome) ==
  CASE outcome = "ok" -> <<Tok("out", target)>>
    [] outcome = "blank" -> <<Tok("ws", "")>>
    [] OTHER -> << >>

\* `[${entry.name}]\n`
Label(target) == <<Tok("label", target)>>

\* allResults.join("\n\n---\n\n")
RECURSIVE Join(_)
Join(parts) ==
  IF Len(parts) = 0 THEN << >>
  ELSE IF Len(parts) = 1 THEN parts[1]
  ELSE parts[1] \o <<Tok("sep", "")>> \o Join(Tail(parts))

\* content.trim().length === 0
IsBlank(content) == \A i \in 1..Len(content) : content[i].t = "ws"

directResponseStep(inputData) == AgentResult("direct", inputData.reasoning, TRUE)

\* The single-target and sequential loop of agentStep from target i on: allResults so
\* far, the workers invoked so far, and whether an invocation threw.
RECURSIVE SequentialLoop(_, _, _, _, _)
SequentialLoop(activeTargets, outcomes, i, allResults, invoked) ==
  IF i > Len(activeTargets)
    THEN [allResults |-> allResults, invoked |-> invoked, threw |-> FALSE]
    ELSE LET target == activeTargets[i]
         IN  IF getRegistryEntry(target) = NoEntry
               THEN SequentialLoop(activeTargets, outcomes, i + 1, allResults, invoked)
               ELSE IF outcomes[i] = "throws"
                      THEN [allResults |-> allResults, invoked |-> Append(invoked, target),
                            threw |-> TRUE]
                      ELSE SequentialLoop(
                             activeTargets, outcomes, i + 1,
                             Append(allResults,
                                    IF Len(activeTargets) = 1
                                      THEN WorkerText(target, outcomes[i])
                                      ELSE Label(target) \o WorkerText(target, outcomes[i])),
                             Append(invoked, target))

\* One element of the Promise.all of the parallel path.
ParallelPart(target, outcome) ==
  IF outcome = "throws"
    THEN Label(target) \o <<Tok("error", target)>>
    ELSE Label(target) \o WorkerText(target, outcome)

\* agentStep.execute: the result, the workers it invoked, and the workflow state it left.
agentStep(inputData, activeMcpIds, state, outcomes) ==
  LET activeTargets == FilterTargets(inputData.targets, activeMcpIds)
      sourceLabel == IF Len(activeTargets) = 1 THEN activeTargets[1] ELSE "multi-agent"
      newState == [executionTargets |-> activeTargets,
                   executionMode |-> inputData.executionMode]
  IN  IF Len(activeTargets) = 0
        THEN [result |-> AgentResult("agent", <<Tok("noActiveAgent", "")>>, FALSE),
              invoked |-> << >>, state |-> state]
        ELSE IF Len(activeTargets) = 1 \/ inputData.executionMode = "sequential"
          THEN LET run == SequentialLoop(activeTargets, outcomes, 1, << >>, << >>)
                   merged == Join(run.allResults)
               IN  [result |->
                      IF run.threw
                        THEN AgentResult(sourceLabel, <<Tok("agentError", "")>>, FALSE)
                        ELSE AgentResult(sourceLabel,
                                         IF Len(merged) > 0 THEN merged
                                                            ELSE <<Tok("noResult", "")>>,
                                         Len(merged) > 0),
                    invoked |-> run.invoked, state |-> newState]
          ELSE LET registered == SelectSeq(activeTargets,
                                           LAMBDA t : getRegistryEntry(t) # NoEntry)
                   results == [i \in 1..Len(activeTargets) |->
                                 IF getRegistryEntry(activeTargets[i]) = NoEntry
                                   THEN << >>
                                   ELSE ParallelPart(activeTargets[i], outcomes[i])]
                   merged == Join(SelectSeq(results, LAMBDA r : Len(r) > 0))
               IN  [result |-> AgentResult(sourceLabel,
                                           IF Len(merged) > 0 THEN merged
                                                              ELSE <<Tok("noResult", "")>>,
                                           Len(merged) > 0),
                    invoked |-> registered, state |-> newState]

\* The step ids of the two branches.  .branch() hands .map() the outputs of the branches
\* that ran, keyed by step id: a key that is absent reads as undefined.
BranchStepIds == {"direct-response", "agent-step"}

NoBranchOutput == [k \in BranchStepIds |-> Undefined]

BranchOutput(stepId, output) == [NoBranchOutput EXCEPT ![stepId] = output]

\* The .map() with no fallback for an output that holds no branch result.
MapBranchOutput_NoFallback(inputData) ==
  IF ~IsUndefined(inputData["direct-response"])
    THEN inputData["direct-response"]
    ELSE inputData["agent-step"]

\* .map(): inputData["direct-response"] || inputData["agent-step"], or the fallback.
MapBranchOutput(inputData) ==
  LET result == IF ~IsUndefined(inputData["direct-response"])
                  THEN inputData["direct-response"]
                  ELSE inputData["agent-step"]
  IN  IF ~IsUndefined(result) THEN result ELSE AgentResult("unknown", << >>, FALSE)

\* The branch step ids of the multi-branch variant of chatWorkflow, and its .map().
BranchStepIdsV1 == <<"direct-response", "atlassian-agent-step", "google-search-agent-step",
                     "datahub-agent-step", "multi-agent-workflow">>

RECURSIVE FirstDefined(_, _, _)
FirstDefined(inputData, keys, i) ==
  IF i > Len(keys) THEN Undefined
  ELSE IF ~IsUndefined(inputData[keys[i]]) THEN inputData[keys[i]]
  ELSE FirstDefined(inputData, keys, i + 1)

MapBranchOutputV1(inputData) ==
  LET result == FirstDefined(inputData, BranchStepIdsV1, 1)
  IN  IF ~IsUndefined(result) THEN result ELSE AgentResult("unknown", << >>, FALSE)

(***************************************************************************)
(* quality-check (the gate that suspends with suggestions).                *)
(***************************************************************************)
\* QUALITY_THRESHOLD = 0.9, and the scores computeQualityScore may give, in hundredths.
QUALITY_THRESHOLD == 90
Scores == {89, 90}

feedbackText == <<Tok("feedback", "")>>
refinedQueryText == <<Tok("refinedQuery", "")>>

\* `${query}\n\n추가 지시: ${feedback}` when there is feedback, else the query.
WithInstructions(query, feedback) ==
  IF Len(feedback) > 0 THEN query \o <<Tok("instructions", "")>> \o feedback ELSE query

\* `원본 질문: ${originalMessage}\n\n추가 지시: ${feedback}`
RefinePrompt(feedback) ==
  <<Tok("originalQuestion", "")>> \o originalMessage \o <<Tok("instructions", "")>> \o feedback

\* callAgent(mcpIdOrSource, prompt, mastra): the result and the workers invoked.
callAgent(mcpIdOrSource, prompt, outcome) ==
  IF getRegistryEntry(mcpIdOrSource).agentId = ""
    THEN [result |-> AgentResult(mcpIdOrSource, prompt, TRUE), invoked |-> << >>]
    ELSE IF outcome = "throws"
      THEN [result |-> AgentResult(mcpIdOrSource, <<Tok("rerunError", mcpIdOrSource)>>, FALSE),
            invoked |-> <<mcpIdOrSource>>]
      ELSE [result |-> AgentResult(mcpIdOrSource, WorkerText(mcpIdOrSource, outcome), TRUE),
            invoked |-> <<mcpIdOrSource>>]

\* buildSuspendPayload: availableAgents are the registry entries other than the
\* original source that the request has active.
buildSuspendPayload(reason, score, originalSource, activeMcpIds) ==
  [reason |-> reason, score |-> score, originalSource |-> originalSource,
   availableAgents |-> SelectSeq(getAllMcpIds,
                                 LAMBDA id : id # originalSource /\ id \in activeMcpIds)]

NoPayload == [reason |-> "", score |-> 0, originalSource |-> "", availableAgents |-> << >>]

\* resumeData: the fields of classifyIntentResumeSchema and of resumeDataSchema; a field
\* that is absent is "" or << >>.
NoResumeData ==
  [userAnswer |-> << >>, selectedPlan |-> "", selectedTargets |-> << >>,
   selectedExecutionMode |-> "", action |-> "", targetAgent |-> "",
   userFeedback |-> << >>, refinedQuery |-> << >>]

ClassifyResumeDatas ==
  {[NoResumeData EXCEPT !.userAnswer = <<Tok("answer", "")>>]}
    \cup {[NoResumeData EXCEPT !.selectedPlan = "plan", !.selectedTargets = tg,
                               !.selectedExecutionMode = em] :
            tg \in TargetArrays, em \in ExecutionModes \cup {""}}

GateActions == {"refine", "reroute", "new", "dismiss", "suggestion"}

GateResumeDatas ==
  {[NoResumeData EXCEPT !.action = a, !.targetAgent = t, !.userFeedback = f] :
     a \in GateActions, t \in AllMcpIdSet \cup {""}, f \in {<< >>, feedbackText}}
    \cup {[NoResumeData EXCEPT !.action = "suggestion", !.refinedQuery = refinedQueryText]}

ResumeDatas == ClassifyResumeDatas \cup GateResumeDatas

(***************************************************************************)
(* The /chat route and the run of chatWorkflow it starts or resumes.       *)
(* A step that throws fails the run; suspend() stores the step id in the   *)
(* run's snapshot; run.resume() throws unless the run is suspended at the  *)
(* step it is given.                                                       *)
(***************************************************************************)
InitialState == [executionTargets |-> << >>, executionMode |-> "parallel"]

NoResume == [step |-> "", recorded |-> "", accepted |-> FALSE]

Response(status, id, step, text) ==
  [status |-> status, runId |-> id, suspendedStep |-> step, text |-> text]

NoResponse == Response("none", 0, "", "none")

\* The classifier outputs the run is driven with: targets and mode vary for type agent,
\* and the reasoning (z.string()) of a simple answer may be the empty string.
RunClassifierOutputs ==
  LET outputs == {o \in ClassifierOutputs :
                    /\ Range(o.targets) \subseteq RunTargetIds
                    /\ o.queries = {}
                    /\ o.type # "agent" => (o.targets = << >> /\ o.executionMode = "parallel")}
  IN  outputs \cup {[o EXCEPT !.reasoning = << >>] : o \in {c \in outputs : c.type = "simple"}}

\* The resume requests the run is driven with: worker ids among RunTargetIds, and
\* targetAgent and userFeedback left out where the action does not read them.
RunResumeDatas ==
  {d \in ResumeDatas :
     /\ Range(d.selectedTargets) \subseteq RunTargetIds
     /\ d.targetAgent \in RunTargetIds \cup {""}
     /\ d.action \in {"refine", "dismiss"} => d.targetAgent = ""
     /\ d.action = "dismiss" => d.userFeedback = << >>}

\* The fields of resumeData that the step with id `step` reads.
FieldsReadBy(step, data) ==
  IF step = "classify-intent"
    THEN [NoResumeData EXCEPT !.userAnswer = data.userAnswer,
                              !.selectedPlan = data.selectedPlan,
                              !.selectedTargets = data.selectedTargets,
                              !.selectedExecutionMode = data.selectedExecutionMode]
    ELSE [NoResumeData EXCEPT !.action = data.action,
                              !.targetAgent = data.targetAgent,
                              !.userFeedback = data.userFeedback,
                              !.refinedQuery = data.refinedQuery]

\* body.suspendedStep: absent, or a step id.
SuspendedStepFields == {"", "classify-intent", "quality-check"}

\* The route answers: the request is over.
EndRequest(resp) ==
  /\ pc' = "idle"
  /\ reqKind' = "none"
  /\ reqActive' = {}
  /\ invokedWorkers' = << >>
  /\ reqSteps' = {}
  /\ resumeData' = NoResumeData
  /\ plan' = NoPlan
  /\ branchOut' = NoBranchOutput
  /\ response' = resp
  /\ UNCHANGED << runId, nReq, lastResume >>

\* result.status === "suspended": the response carries result.suspended[0].
SuspendAt(step, pl) ==
  /\ runStatus' = "suspended"
  /\ suspendedStep' = step
  /\ payload' = pl
  /\ EndRequest(Response("suspended", runId, step, "none"))

\* A step threw: the run ends failed, result.result is undefined and the route answers
\* with the default text.
RunFails ==
  /\ runStatus' = "failed"
  /\ EndRequest(Response("completed", runId, "", "default"))
  /\ UNCHANGED << suspendedStep, wfState, gateIn, gateOut, payload >>

\* workflow.createRun() and run.start() with the initial state.
StartRun(active, kind) ==
  /\ reqKind' = kind
  /\ reqActive' = active
  /\ runId' = runId + 1
  /\ runStatus' = "running"
  /\ suspendedStep' = ""
  /\ wfState' = InitialState
  /\ plan' = NoPlan
  /\ branchOut' = NoBranchOutput
  /\ gateIn' = Undefined
  /\ gateOut' = Undefined
  /\ resumeData' = NoResumeData
  /\ payload' = NoPayload
  /\ invokedWorkers' = << >>
  /\ reqSteps' = {}
  /\ lastResume' = NoResume
  /\ pc' = "classify"
  /\ nReq' = nReq + 1
  /\ response' = NoResponse

\* POST /chat with a message.
ChatStart ==
  /\ pc = "idle"
  /\ nReq < MaxRequests
  /\ \E active \in SUBSET AllMcpIdSet : StartRun(active, "start")
  /\ UNCHANGED otherThanRun

\* POST /chat with a runId and resumeData.action "new": a fresh run is started.
ChatNew ==
  /\ pc = "idle"
  /\ runId > 0
  /\ nReq < MaxRequests
  /\ \E active \in SUBSET AllMcpIdSet : StartRun(active, "new")
  /\ UNCHANGED otherThanRun

\* What the step with id `step` can read of the resume requests the run is driven with.
ResumeDatasFor(step) == {FieldsReadBy(step, d) : d \in {r \in RunResumeDatas : r.action # "new"}}

\* POST /chat with the runId of the latest run, resumeData (action other than "new") and
\* suspendedStep: run.resume({ step: body.suspendedStep || "classify-intent", ... }).
ChatResume(stepField) ==
  /\ pc = "idle"
  /\ runId > 0
  /\ nReq < MaxRequests
  /\ LET step == IF stepField # "" THEN stepField ELSE "classify-intent"
     IN  IF runStatus = "suspended" /\ step = suspendedStep
           THEN \E active \in SUBSET AllMcpIdSet, data \in ResumeDatasFor(step) :
                  /\ reqKind' = "resume"
                  /\ reqActive' = active
                  /\ runStatus' = "running"
                  /\ suspendedStep' = ""
                  /\ resumeData' = data
                  /\ pc' = IF step = "classify-intent" THEN "classifyResume"
                                                       ELSE "gateResume"
                  /\ lastResume' = [step |-> step, recorded |-> suspendedStep,
                                    accepted |-> TRUE]
                  /\ nReq' = nReq + 1
                  /\ response' = NoResponse
                  /\ UNCHANGED << runId, wfState, plan, branchOut, gateIn, gateOut,
                                  payload, invokedWorkers, reqSteps >>
           ELSE /\ lastResume' = [step |-> step, recorded |-> suspendedStep,
                                  accepted |-> FALSE]
                /\ response' = Response("error", 0, "", "none")
                /\ nReq' = nReq + 1
                /\ UNCHANGED << pc, reqKind, reqActive, runId, runStatus, suspendedStep,
                                wfState, plan, branchOut, gateIn, gateOut, resumeData,
                                payload, invokedWorkers, reqSteps >>
  /\ UNCHANGED otherThanRun

\* getUserActiveMcpIds (or reading the body) rejects: the catch block answers 500.
ChatRejected ==
  /\ pc = "idle"
  /\ nReq < MaxRequests
  /\ response' = Response("error", 0, "", "none")
  /\ nReq' = nReq + 1
  /\ UNCHANGED << pc, reqKind, reqActive, runId, runStatus, suspendedStep, wfState, plan,
                  branchOut, gateIn, gateOut, resumeData, payload, invokedWorkers, reqSteps,
                  lastResume >>
  /\ UNCHANGED otherThanRun

\* classify-intent handing on as if the gate were chained before .branch(): .map()
\* finds no branch output and the gate gets its fallback.
ClassifyReturns_GateBeforeBranch(classification) ==
  /\ plan' = classification
  /\ gateIn' = MapBranchOutput(NoBranchOutput)
  /\ pc' = "gate"
  /\ reqSteps' = reqSteps \cup {"classify-intent"}
  /\ resumeData' = NoResumeData
  /\ UNCHANGED << reqKind, reqActive, runId, runStatus, suspendedStep, wfState, branchOut,
                  gateOut, payload, invokedWorkers, lastResume, response, nReq >>

\* classify-intent hands `classification` on to the branch.
ClassifyReturns(classification) ==
  /\ plan' = classification
  /\ pc' = "branch"
  /\ reqSteps' = reqSteps \cup {"classify-intent"}
  /\ resumeData' = NoResumeData
  /\ UNCHANGED << reqKind, reqActive, runId, runStatus, suspendedStep, wfState, branchOut,
                  gateIn, gateOut, payload, invokedWorkers, lastResume, response, nReq >>

\* The general path of classify-intent: clarify and ambiguous suspend.
ClassifyGeneralPath(classification) ==
  IF classification.type \in {"clarify", "ambiguous"}
    THEN /\ SuspendAt("classify-intent",
                      [NoPayload EXCEPT !.reason = classification.type])
         /\ UNCHANGED << wfState, gateIn, gateOut >>
    ELSE ClassifyReturns(classification)

\* classify-intent.execute.
ClassifyIntent ==
  /\ \/ pc = "classify"
     \/ pc = "classifyResume" /\ resumeData.userAnswer = << >> /\ resumeData.selectedPlan = ""
  /\ \E llm \in RunClassifierOutputs :
       ClassifyGeneralPath(validateClassification(llm, reqActive))
  /\ UNCHANGED otherThanRun

\* classify-intent.execute with resumeData.userAnswer, or with resumeData.selectedPlan
\* and no selectedTargets: the new classification is returned as it is.
ClassifyIntentReclassify ==
  /\ pc = "classifyResume"
  /\ \/ resumeData.userAnswer # << >>
     \/ resumeData.selectedPlan # "" /\ Len(resumeData.selectedTargets) = 0
  /\ \E llm \in RunClassifierOutputs :
       ClassifyReturns(validateClassification(llm, reqActive))
  /\ UNCHANGED otherThanRun

\* classify-intent.execute with resumeData.selectedPlan and selectedTargets.
ClassifyIntentSelectedPlan ==
  /\ pc = "classifyResume"
  /\ resumeData.userAnswer = << >>
  /\ resumeData.selectedPlan # ""
  /\ Len(resumeData.selectedTargets) > 0
  /\ ClassifyReturns([type |-> "agent",
                      targets |-> resumeData.selectedTargets,
                      queries |-> Range(resumeData.selectedTargets),
                      reasoning |-> <<Tok("selectedPlan", "")>>,
                      executionMode |-> IF resumeData.selectedExecutionMode # ""
                                          THEN resumeData.selectedExecutionMode
                                          ELSE "parallel"])
  /\ UNCHANGED otherThanRun

\* classifier.generate rejects.
ClassifyIntentThrows ==
  /\ pc \in {"classify", "classifyResume"}
  /\ ~(pc = "classifyResume" /\ resumeData.selectedPlan # "" /\ resumeData.userAnswer = << >>
         /\ Len(resumeData.selectedTargets) > 0)
  /\ RunFails
  /\ UNCHANGED otherThanRun

\* .branch(): inputData.type === "simple" -> directResponseStep.
DirectResponse ==
  /\ pc = "branch"
  /\ plan.type = "simple"
  /\ branchOut' = BranchOutput("direct-response", directResponseStep(plan))
  /\ reqSteps' = reqSteps \cup {"direct-response"}
  /\ pc' = "map"
  /\ UNCHANGED << reqKind, reqActive, runId, runStatus, suspendedStep, wfState, plan, gateIn,
                  gateOut, resumeData, payload, invokedWorkers, lastResume, response, nReq >>
  /\ UNCHANGED otherThanRun

\* .branch(): inputData.type === "agent" -> agentStep.
AgentStep ==
  /\ pc = "branch"
  /\ plan.type = "agent"
  /\ \E outcomes \in [1..MaxTargets -> WorkerOutcomes] :
       LET r == agentStep(plan, reqActive, wfState, outcomes)
       IN  /\ branchOut' = BranchOutput("agent-step", r.result)
           /\ invokedWorkers' = invokedWorkers \o r.invoked
           /\ wfState' = r.state
  /\ reqSteps' = reqSteps \cup {"agent-step"}
  /\ pc' = "map"
  /\ UNCHANGED << reqKind, reqActive, runId, runStatus, suspendedStep, plan, gateIn, gateOut,
                  resumeData, payload, lastResume, response, nReq >>
  /\ UNCHANGED otherThanRun

\* .branch(): no condition holds, no branch runs.
BranchNoMatch ==
  /\ pc = "branch"
  /\ plan.type \notin {"simple", "agent"}
  /\ branchOut' = NoBranchOutput
  /\ pc' = "map"
  /\ UNCHANGED << reqKind, reqActive, runId, runStatus, suspendedStep, wfState, plan, gateIn,
                  gateOut, resumeData, payload, invokedWorkers, reqSteps, lastResume,
                  response, nReq >>
  /\ UNCHANGED otherThanRun

\* .map(): its output is the input of quality-check.
MapStep ==
  /\ pc = "map"
  /\ gateIn' = MapBranchOutput(branchOut)
  /\ plan' = NoPlan
  /\ branchOut' = NoBranchOutput
  /\ pc' = "gate"
  /\ UNCHANGED << reqKind, reqActive, runId, runStatus, suspendedStep, wfState, gateOut,
                  resumeData, payload, invokedWorkers, reqSteps, lastResume, response, nReq >>
  /\ UNCHANGED otherThanRun

\* quality-check looping on what its resume path produced: the result is checked and
\* scored as a new input instead of being handed on.
GateReturns_ScoresAgain(result, workers) ==
  /\ gateIn' = result
  /\ invokedWorkers' = invokedWorkers \o workers
  /\ reqSteps' = reqSteps \cup {"quality-check"}
  /\ resumeData' = NoResumeData
  /\ pc' = "gate"
  /\ UNCHANGED << reqKind, reqActive, runId, runStatus, suspendedStep, wfState, plan,
                  branchOut, gateOut, payload, lastResume, response, nReq >>

\* quality-check hands `result` on to synthesize-response.
GateReturns(result, workers) ==
  /\ gateOut' = result
  /\ gateIn' = Undefined
  /\ invokedWorkers' = invokedWorkers \o workers
  /\ reqSteps' = reqSteps \cup {"quality-check"}
  /\ resumeData' = NoResumeData
  /\ pc' = "synth"
  /\ UNCHANGED << reqKind, reqActive, runId, runStatus, suspendedStep, wfState, plan,
                  branchOut, payload, lastResume, response, nReq >>

\* quality-check.execute with no resumeData.action: the rule check, the skip of direct
\* results, the score.
QualityCheck ==
  /\ \/ pc = "gate"
     \/ pc = "gateResume" /\ resumeData.action = ""
  /\ IF ~gateIn.success \/ IsBlank(gateIn.content)
       THEN /\ SuspendAt("quality-check",
                         buildSuspendPayload("failedOrEmpty", 0, gateIn.source, reqActive))
            /\ UNCHANGED << wfState, gateIn, gateOut >>
       ELSE IF gateIn.source = "direct"
         THEN GateReturns(gateIn, << >>)
         ELSE \E score \in Scores :
                IF score < QUALITY_THRESHOLD
                  THEN /\ SuspendAt("quality-check",
                                    buildSuspendPayload("lowScore", score, gateIn.source,
                                                        reqActive))
                       /\ UNCHANGED << wfState, gateIn, gateOut >>
                  ELSE GateReturns(gateIn, << >>)
  /\ UNCHANGED otherThanRun

\* quality-check.execute with resumeData.action "dismiss" returning the closing result
\* instead of handing it to bail(): the run goes on to synthesize-response.
QualityCheckDismiss_NoBail ==
  /\ pc = "gateResume"
  /\ resumeData.action = "dismiss"
  /\ GateReturns(AgentResult(gateIn.source, <<Tok("dismissed", "")>>, TRUE), << >>)
  /\ UNCHANGED otherThanRun

\* quality-check.execute with resumeData.action "dismiss": bail() ends the run; its
\* result has no response field, so the route answers with the default text.
QualityCheckDismiss ==
  /\ pc = "gateResume"
  /\ resumeData.action = "dismiss"
  /\ runStatus' = "success"
  /\ gateOut' = AgentResult(gateIn.source, <<Tok("dismissed", "")>>, TRUE)
  /\ gateIn' = Undefined
  /\ EndRequest(Response("completed", runId, "", "default"))
  /\ UNCHANGED << suspendedStep, wfState, payload >>
  /\ UNCHANGED otherThanRun

\* No worker is addressed: the resume path falls through to its last return.
NoCall == [target |-> "", prompt |-> << >>]

\* The resume path of quality-check with reroute addressing the worker of the result.
GateResumeCall_RerouteToSource(inputData, data) ==
  CASE data.action = "suggestion" /\ data.targetAgent # "" ->
         [target |-> data.targetAgent,
          prompt |-> WithInstructions(originalMessage, data.userFeedback)]
    [] data.action = "suggestion" /\ data.targetAgent = "" ->
         [target |-> inputData.source,
          prompt |-> WithInstructions(IF Len(data.refinedQuery) > 0 THEN data.refinedQuery
                                                                    ELSE originalMessage,
                                      data.userFeedback)]
    [] data.action = "refine" ->
         [target |-> inputData.source, prompt |-> RefinePrompt(data.userFeedback)]
    [] data.action = "reroute" /\ data.targetAgent # "" ->
         [target |-> inputData.source,
          prompt |-> WithInstructions(originalMessage, data.userFeedback)]
    [] OTHER -> NoCall

\* The resume path of quality-check for suggestion, refine and reroute: the id and the
\* prompt it gives callAgent.
GateResumeCall(inputData, data) ==
  CASE data.action = "suggestion" /\ data.targetAgent # "" ->
         [target |-> data.targetAgent,
          prompt |-> WithInstructions(originalMessage, data.userFeedback)]
    [] data.action = "suggestion" /\ data.targetAgent = "" ->
         [target |-> inputData.source,
          prompt |-> WithInstructions(IF Len(data.refinedQuery) > 0 THEN data.refinedQuery
                                                                    ELSE originalMessage,
                                      data.userFeedback)]
    [] data.action = "refine" ->
         [target |-> inputData.source, prompt |-> RefinePrompt(data.userFeedback)]
    [] data.action = "reroute" /\ data.targetAgent # "" ->
         [target |-> data.targetAgent,
          prompt |-> WithInstructions(originalMessage, data.userFeedback)]
    [] OTHER -> NoCall

\* What the resume path of quality-check returns for the other actions.
GateResumeResult(inputData, data, outcome) ==
  LET target == GateResumeCall(inputData, data)
  IN  IF target # NoCall
        THEN callAgent(target.target, target.prompt, outcome)
        ELSE [result |-> AgentResult(inputData.source,
                                     IF Len(data.userFeedback) > 0 THEN data.userFeedback
                                                                   ELSE inputData.content,
                                     TRUE),
              invoked |-> << >>]

\* quality-check.execute with resumeData.action suggestion, refine, reroute (or new).
QualityCheckResume ==
  /\ pc = "gateResume"
  /\ resumeData.action \notin {"", "dismiss"}
  /\ \E outcome \in WorkerOutcomes :
       LET r == GateResumeResult(gateIn, resumeData, outcome)
       IN  GateReturns(r.result, r.invoked)
  /\ UNCHANGED otherThanRun

\* synthesize-response returns { response }: the run ends and the route answers.
Synthesize ==
  /\ pc = "synth"
  /\ runStatus' = "success"
  /\ EndRequest(Response("completed", runId, "", "response"))
  /\ UNCHANGED << suspendedStep, wfState, gateIn, gateOut, payload >>
  /\ UNCHANGED otherThanRun

\* finalResponserAgent.generate rejects.
SynthesizeThrows ==
  /\ pc = "synth"
  /\ RunFails
  /\ UNCHANGED otherThanRun

RunParked ==
  /\ pc = "idle"
  /\ reqKind = "none"
  /\ reqActive = {}
  /\ runId = 0
  /\ runStatus = "none"
  /\ suspendedStep = ""
  /\ wfState = InitialState
  /\ plan = NoPlan
  /\ branchOut = NoBranchOutput
  /\ gateIn = Undefined
  /\ gateOut = Undefined
  /\ resumeData = NoResumeData
  /\ payload = NoPayload
  /\ invokedWorkers = << >>
  /\ reqSteps = {}
  /\ lastResume = NoResume
  /\ response = NoResponse
  /\ nReq = 0

(***************************************************************************)
(* agentStep.execute, await by await: the invocation of a target is the    *)
(* call of getToolsets, then the call of agent.generate with the prompt.   *)
(***************************************************************************)
\* The ids a plan names here: two registered workers and one without registry entry.
AgentTargetIds == {"atlassian", "datahub", UnknownId}

\* inputData.queries[target]: absent, a string, or a SequentialQuery with or without
\* goal and contextHint.
QueryKinds == {"none", "string", "plan", "planGoal", "planHint", "planGoalHint"}

\* queryPlan: { query: rawQuery || userMessage, goal: "" } or the SequentialQuery itself
\* (an absent contextHint reads as the empty text).
QueryPlan(target, kind) ==
  [query |-> IF kind = "none" THEN originalMessage ELSE <<Tok("query", target)>>,
   goal |-> IF kind \in {"planGoal", "planGoalHint"} THEN <<Tok("goal", target)>> ELSE << >>,
   contextHint |-> IF kind \in {"planHint", "planGoalHint"}
                     THEN <<Tok("contextHint", target)>> ELSE << >>]

\* The prompt of the sequential loop with the previous result left out.
SequentialPrompt_DropsPrevious(queryPlan, previousResult) ==
  IF Len(queryPlan.goal) > 0
    THEN <<Tok("goalHeader", "")>> \o queryPlan.goal
           \o <<Tok("requestHeader", "")>> \o queryPlan.query
    ELSE queryPlan.query

\* The prompt of the sequential loop without the contextHint framing.
SequentialPrompt_DropsHint(queryPlan, previousResult) ==
  IF Len(previousResult) > 0
    THEN IF Len(queryPlan.goal) > 0
           THEN <<Tok("goalHeader", "")>> \o queryPlan.goal
                  \o <<Tok("previousHeader", "")>> \o previousResult
                  \o <<Tok("requestHeader", "")>> \o queryPlan.query
           ELSE queryPlan.query \o <<Tok("previousHeader", "")>> \o previousResult
    ELSE IF Len(queryPlan.goal) > 0
           THEN <<Tok("goalHeader", "")>> \o queryPlan.goal
                  \o <<Tok("requestHeader", "")>> \o queryPlan.query
           ELSE queryPlan.query

\* The prompt of the sequential loop (agent-steps.ts:110-124).
SequentialPrompt(queryPlan, previousResult) ==
  IF Len(previousResult) > 0 /\ Len(queryPlan.contextHint) > 0
    THEN <<Tok("goalHeader", "")>> \o queryPlan.goal
           \o <<Tok("previousHeader", ""), Tok("hintOpen", "")>> \o queryPlan.contextHint
           \o <<Tok("hintClose", "")>> \o previousResult
           \o <<Tok("requestHeader", "")>> \o queryPlan.query
    ELSE IF Len(previousResult) > 0
      THEN IF Len(queryPlan.goal) > 0
             THEN <<Tok("goalHeader", "")>> \o queryPlan.goal
                    \o <<Tok("previousHeader", "")>> \o previousResult
                    \o <<Tok("requestHeader", "")>> \o queryPlan.query
             ELSE queryPlan.query \o <<Tok("previousHeader", "")>> \o previousResult
      ELSE IF Len(queryPlan.goal) > 0
             THEN <<Tok("goalHeader", "")>> \o queryPlan.goal
                    \o <<Tok("requestHeader", "")>> \o queryPlan.query
             ELSE queryPlan.query

\* What getToolsets may do.
AcquireOutcomes == {"ok", "throws"}

\* The single/sequential path is taken for one target only.
IsSequential_SingleOnly(activeTargets, executionMode) == Len(activeTargets) = 1

\* activeTargets.length === 1 || inputData.executionMode === "sequential"
IsSequential(activeTargets, executionMode) ==
  Len(activeTargets) = 1 \/ executionMode = "sequential"

SourceLabel(activeTargets) ==
  IF Len(activeTargets) = 1 THEN activeTargets[1] ELSE "multi-agent"

\* The state written before the check for an empty activeTargets.
RecordedState_BeforeCheck(state, activeTargets, executionMode) ==
  [executionTargets |-> activeTargets, executionMode |-> executionMode]

\* The workflow state after lines 63-83: setState runs only past the early return.
RecordedState(state, activeTargets, executionMode) ==
  IF Len(activeTargets) = 0
    THEN state
    ELSE [executionTargets |-> activeTargets, executionMode |-> executionMode]

\* The first position from `from` on whose target has a registry entry (Len + 1: none).
RECURSIVE NextRegistered(_, _)
NextRegistered(activeTargets, from) ==
  IF from > Len(activeTargets) THEN from
  ELSE IF getRegistryEntry(activeTargets[from]) # NoEntry THEN from
  ELSE NextRegistered(activeTargets, from + 1)

\* { source, content: merged || "...", success: merged.length > 0 }
MergedResult(sourceLabel, parts) ==
  LET merged == Join(parts)
  IN  AgentResult(sourceLabel,
                  IF Len(merged) > 0 THEN merged ELSE <<Tok("noResult", "")>>,
                  Len(merged) > 0)

\* The outer catch (lines 173-179).
OuterCatch(sourceLabel) == AgentResult(sourceLabel, <<Tok("agentError", "")>>, FALSE)

\* The positions whose invocation is in progress.
InProgress(stage) == {i \in DOMAIN stage : stage[i] \in {"acquiring", "generating"}}

\* The plans agentStep is run on.
AgentPlans ==
  {[type |-> "agent", targets |-> tg, queryKinds |-> qk, executionMode |-> em] :
     tg \in UNION {[1..n -> AgentTargetIds] : n \in 0..MaxTargets},
     qk \in {q \in [AgentTargetIds -> QueryKinds] :
               \A t \in AgentTargetIds : q[t] # "none" => getRegistryEntry(t) # NoEntry},
     em \in ExecutionModes}

NoAgentPlan ==
  [type |-> "none", targets |-> << >>, queryKinds |-> [t \in AgentTargetIds |-> "none"],
   executionMode |-> "parallel"]

\* The workflow state agentStep finds: the initial one, or one an earlier step left.
AgentPriorStates ==
  {[executionTargets |-> << >>, executionMode |-> "parallel"],
   [executionTargets |-> <<"atlassian">>, executionMode |-> "sequential"]}

\* Lines 56-101 and 143-152: filter, early return, setState, then the first target of
\* the loop, or every target of the Promise.all, up to its call of getToolsets.
AgentStepStart ==
  /\ asPc = "start"
  /\ LET activeTargets == FilterTargets(asInput.targets, asActive)
         n == Len(activeTargets)
         first == NextRegistered(activeTargets, 1)
         stage == [i \in 1..n |->
                     IF getRegistryEntry(activeTargets[i]) = NoEntry THEN "skipped"
                     ELSE IF IsSequential(activeTargets, asInput.executionMode) /\ i # first
                       THEN "waiting"
                       ELSE "acquiring"]
         begun == SelectSeq([i \in 1..n |-> i], LAMBDA i : stage[i] = "acquiring")
     IN  /\ asTargets' = activeTargets
         /\ asState' = RecordedState(asState, activeTargets, asInput.executionMode)
         /\ asStage' = stage
         /\ asParts' = [i \in 1..n |-> << >>]
         /\ asTexts' = [i \in 1..n |-> << >>]
         /\ asAcquired' = [k \in 1..Len(begun) |-> activeTargets[begun[k]]]
         /\ IF n = 0
              THEN /\ asResult' = AgentResult("agent", <<Tok("noActiveAgent", "")>>, FALSE)
                   /\ asPc' = "returned"
              ELSE IF Len(begun) = 0
                THEN /\ asResult' = MergedResult(SourceLabel(activeTargets), << >>)
                     /\ asPc' = "returned"
                ELSE /\ asResult' = asResult
                     /\ asPc' = "running"
  /\ UNCHANGED << asInput, asActive, asPrevious, asAllResults, asPrompts >>
  /\ UNCHANGED otherThanAgent

\* The invocation of the target at position i threw (getToolsets or agent.generate
\* rejected): the outer catch in the loop, the callback's own catch in the Promise.all.
InvocationThrew(i) ==
  IF IsSequential(asTargets, asInput.executionMode)
    THEN /\ asStage' = [asStage EXCEPT ![i] = "threw"]
         /\ asResult' = OuterCatch(SourceLabel(asTargets))
         /\ asPc' = "returned"
         /\ UNCHANGED << asParts, asPrevious, asAllResults, asTexts, asAcquired >>
    ELSE LET stage == [asStage EXCEPT ![i] = "threw"]
             parts == [asParts EXCEPT ![i] = Label(asTargets[i])
                                               \o <<Tok("error", asTargets[i])>>]
         IN  /\ asStage' = stage
             /\ asParts' = parts
             /\ IF InProgress(stage) = {}
                  THEN /\ asResult' = MergedResult(SourceLabel(asTargets),
                                                   SelectSeq(parts, LAMBDA r : Len(r) > 0))
                       /\ asPc' = "returned"
                  ELSE UNCHANGED << asResult, asPc >>
             /\ UNCHANGED << asPrevious, asAllResults, asTexts, asAcquired >>

\* agent.generate of the target at position i resolved with `text`: the loop goes on to
\* the next target with a registry entry or returns; the Promise.all returns when its
\* last callback has settled.
InvocationReturned(i, text) ==
  IF IsSequential(asTargets, asInput.executionMode)
    THEN LET next == NextRegistered(asTargets, i + 1)
             allResults == Append(asAllResults,
                                  IF Len(asTargets) = 1 THEN text
                                                        ELSE Label(asTargets[i]) \o text)
         IN  /\ asPrevious' = text
             /\ asAllResults' = allResults
             /\ asTexts' = [asTexts EXCEPT ![i] = text]
             /\ IF next <= Len(asTargets)
                  THEN /\ asStage' = [asStage EXCEPT ![i] = "done", ![next] = "acquiring"]
                       /\ asAcquired' = Append(asAcquired, asTargets[next])
                       /\ UNCHANGED << asResult, asPc >>
                  ELSE /\ asStage' = [asStage EXCEPT ![i] = "done"]
                       /\ asResult' = MergedResult(SourceLabel(asTargets), allResults)
                       /\ asPc' = "returned"
                       /\ UNCHANGED asAcquired
             /\ UNCHANGED asParts
    ELSE LET stage == [asStage EXCEPT ![i] = "done"]
             parts == [asParts EXCEPT ![i] = Label(asTargets[i]) \o text]
         IN  /\ asStage' = stage
             /\ asParts' = parts
             /\ asTexts' = [asTexts EXCEPT ![i] = text]
             /\ IF InProgress(stage) = {}
                  THEN /\ asResult' = MergedResult(SourceLabel(asTargets),
                                                   SelectSeq(parts, LAMBDA r : Len(r) > 0))
                       /\ asPc' = "returned"
                  ELSE UNCHANGED << asResult, asPc >>
             /\ UNCHANGED << asPrevious, asAllResults, asAcquired >>

\* getToolsets of the target at position i settles; when it resolves, the prompt is
\* built and agent.generate is called.
AgentAcquired(i) ==
  /\ asPc = "running"
  /\ i \in DOMAIN asStage
  /\ asStage[i] = "acquiring"
  /\ \E a \in AcquireOutcomes :
       IF a = "ok"
         THEN LET queryPlan == QueryPlan(asTargets[i], asInput.queryKinds[asTargets[i]])
              IN  /\ asStage' = [asStage EXCEPT ![i] = "generating"]
                  /\ asPrompts' =
                       Append(asPrompts,
                              [idx |-> i, target |-> asTargets[i],
                               prompt |-> IF IsSequential(asTargets, asInput.executionMode)
                                            THEN SequentialPrompt(queryPlan, asPrevious)
                                            ELSE queryPlan.query])
                  /\ UNCHANGED << asPc, asResult, asParts, asPrevious, asAllResults,
                                  asTexts, asAcquired >>
         ELSE /\ InvocationThrew(i)
              /\ UNCHANGED asPrompts
  /\ UNCHANGED << asInput, asActive, asTargets, asState >>
  /\ UNCHANGED otherThanAgent

\* agent.generate of the target at position i settles.
AgentGenerated(i) ==
  /\ asPc = "running"
  /\ i \in DOMAIN asStage
  /\ asStage[i] = "generating"
  /\ \E o \in WorkerOutcomes :
       IF o = "throws" THEN InvocationThrew(i)
                       ELSE InvocationReturned(i, WorkerText(asTargets[i], o))
  /\ UNCHANGED << asInput, asActive, asTargets, asState, asPrompts >>
  /\ UNCHANGED otherThanAgent

AgentParked ==
  /\ asPc = "parked"
  /\ asInput = NoAgentPlan
  /\ asActive = {}
  /\ asTargets = << >>
  /\ asStage = << >>
  /\ asPrevious = << >>
  /\ asAllResults = << >>
  /\ asParts = << >>
  /\ asPrompts = << >>
  /\ asAcquired = << >>
  /\ asTexts = << >>
  /\ asState = InitialState
  /\ asResult = Undefined

(***************************************************************************)
(* The retry loop (state.ts: "dountil 루프에서 classify-intent가             *)
(* previousFeedback을 참조하여 자동 재시도"; index.ts unwraps its nested      *)
(* workflow "classify-and-execute").  The workflow that builds the loop    *)
(* and the gate that feeds it are not among the sources; they follow the   *)
(* specification, sections 4.4 (pure-gate behaviour) and 4.5.  The cycle's *)
(* body is the steps above.                                                *)
(***************************************************************************)
\* "a fixed maximum iteration count (3) on the Planning->Scoring cycle"
MaxIterations == 3

\* The workers enabled for the run.
LoopActiveMcpIds == RunTargetIds

\* The plans Planning hands on to Answering (simple) or Delegating (agent).
LoopPlans ==
  {validateClassification(o, LoopActiveMcpIds) :
     o \in {c \in RunClassifierOutputs : c.type \in {"simple", "agent"}}}

\* What classifyMessage may return in the loop: LoopPlans, or a request to the user.
LoopClassifications ==
  LoopPlans \cup {validateClassification(o, LoopActiveMcpIds) :
                    o \in {c \in RunClassifierOutputs : c.type \in {"clarify", "ambiguous"}}}

\* The score of a cycle the gate did not score.
NoScore == 0 - 1

\* "a composed feedback string describing the failing source", of the given iteration.
LoopFeedback(result, iteration) ==
  <<Tok("feedback", result.source), Tok("feedbackIteration", ToString(iteration))>>

\* The pure gate in iteration `iteration`: evaluate(result) -> pass | retry, with the
\* score when it asked for one.
\*  - result.source = "direct": evaluation is skipped;
\*  - empty content or success = false: a retry-labelled failure result;
\*  - score >= threshold: pass, clearing any stored feedback;
\*  - score < threshold: a retry result carrying a feedback string.
PureGate(result, score, feedback, iteration) ==
  IF result.source = "direct"
    THEN [out |-> result, previousFeedback |-> feedback, score |-> NoScore]
    ELSE IF IsBlank(result.content) \/ ~result.success
      THEN [out |-> AgentResult("retry", LoopFeedback(result, iteration), FALSE),
            previousFeedback |-> Defined(LoopFeedback(result, iteration)),
            score |-> NoScore]
      ELSE IF score >= QUALITY_THRESHOLD
        THEN [out |-> result, previousFeedback |-> Undefined, score |-> score]
        ELSE [out |-> AgentResult("retry", LoopFeedback(result, iteration), FALSE),
              previousFeedback |-> Defined(LoopFeedback(result, iteration)),
              score |-> score]

\* The loop's exit test without the iteration bound.
LoopUntil_NoBound(out, iterations) == out.source # "retry"

\* The loop's exit test, evaluated after each cycle: the gate passed the result, or
\* the maximum iteration count is reached.
LoopUntil(out, iterations) ==
  \/ out.source # "retry"
  \/ iterations >= MaxIterations

\* One call of the classifier, as the loop records it.
LoopPrompt(iteration, path, prompt) ==
  [iteration |-> iteration, path |-> path, prompt |-> prompt]

\* Planning: the general path of classify-intent reads state.previousFeedback and
\* classifies the message; clarify and ambiguous suspend the run.
LoopPlanning ==
  /\ loopPc = "planning"
  /\ \E c \in LoopClassifications :
       /\ loopPlan' = c
       /\ loopPc' = IF c.type \in {"clarify", "ambiguous"} THEN "suspended" ELSE "executing"
  /\ feedbackSeen' = Append(feedbackSeen, previousFeedback)
  /\ loopPrompts' = Append(loopPrompts,
                           LoopPrompt(iterationCount + 1, "general",
                                      classifyPrompt(originalMessage, LoopActiveMcpIds,
                                                     previousFeedback)))
  /\ UNCHANGED << iterationCount, previousFeedback, loopResult, loopScores >>
  /\ UNCHANGED otherThanLoop

\* Planning resumed with the user's answer: classify-intent classifies again, with
\* previousFeedback: undefined, and returns whatever the classifier answers.
LoopPlanningResume ==
  /\ loopPc = "suspended"
  /\ \E c \in LoopClassifications : loopPlan' = c
  /\ loopPc' = "executing"
  /\ loopPrompts' = Append(loopPrompts,
                           LoopPrompt(iterationCount + 1, "resume",
                                      classifyPrompt(originalMessage \o <<Tok("answer", "")>>,
                                                     LoopActiveMcpIds, Undefined)))
  /\ UNCHANGED << iterationCount, previousFeedback, loopResult, feedbackSeen, loopScores >>
  /\ UNCHANGED otherThanLoop

\* Answering: the plan is simple, directResponseStep runs.
LoopAnswering ==
  /\ loopPc = "executing"
  /\ loopPlan.type = "simple"
  /\ loopResult' = MapBranchOutput(BranchOutput("direct-response",
                                                directResponseStep(loopPlan)))
  /\ loopPc' = "scoring"
  /\ UNCHANGED << iterationCount, previousFeedback, loopPlan, feedbackSeen, loopScores,
                  loopPrompts >>
  /\ UNCHANGED otherThanLoop

\* Delegating: the plan is agent, agentStep runs.
LoopDelegating ==
  /\ loopPc = "executing"
  /\ loopPlan.type = "agent"
  /\ \E outcomes \in [1..MaxTargets -> WorkerOutcomes] :
       loopResult' =
         MapBranchOutput(BranchOutput("agent-step",
           agentStep(loopPlan, LoopActiveMcpIds, InitialState, outcomes).result))
  /\ loopPc' = "scoring"
  /\ UNCHANGED << iterationCount, previousFeedback, loopPlan, feedbackSeen, loopScores,
                  loopPrompts >>
  /\ UNCHANGED otherThanLoop

\* Neither: the plan of a resumed classification is clarify or ambiguous, no branch runs.
LoopNoBranch ==
  /\ loopPc = "executing"
  /\ loopPlan.type \notin {"simple", "agent"}
  /\ loopResult' = MapBranchOutput(NoBranchOutput)
  /\ loopPc' = "scoring"
  /\ UNCHANGED << iterationCount, previousFeedback, loopPlan, feedbackSeen, loopScores,
                  loopPrompts >>
  /\ UNCHANGED otherThanLoop

\* Scoring, then the loop's exit test: Done, or Retrying back to Planning.
LoopScoring ==
  /\ loopPc = "scoring"
  /\ \E score \in Scores :
       LET g == PureGate(loopResult, score, previousFeedback, iterationCount + 1)
       IN  /\ loopResult' = g.out
           /\ previousFeedback' = g.previousFeedback
           /\ loopScores' = Append(loopScores, g.score)
           /\ iterationCount' = iterationCount + 1
           /\ loopPc' = IF LoopUntil(g.out, iterationCount + 1) THEN "done" ELSE "planning"
  /\ UNCHANGED << loopPlan, feedbackSeen, loopPrompts >>
  /\ UNCHANGED otherThanLoop

\* Done terminates into the final synthesis step.
LoopSynthesize ==
  /\ loopPc = "done"
  /\ loopPc' = "synthesized"
  /\ UNCHANGED << iterationCount, previousFeedback, loopPlan, loopResult, feedbackSeen,
                  loopScores, loopPrompts >>
  /\ UNCHANGED otherThanLoop

LoopParked ==
  /\ loopPc = "planning"
  /\ iterationCount = 0
  /\ previousFeedback = Undefined
  /\ loopPlan = NoPlan
  /\ loopResult = Undefined
  /\ feedbackSeen = << >>
  /\ loopScores = << >>
  /\ loopPrompts = << >>

(***************************************************************************)
(* quality-check (the gate that suspends with suggestions), one execution  *)
(* and its resume: buildSuspendPayload awaits generateSuggestions, and the *)
(* resume path awaits callAgent.                                           *)
(***************************************************************************)
\* The ids a request has active while the gate is exercised.
GateActiveIds == {"atlassian", "datahub", "google-search"}

\* score <= QUALITY_THRESHOLD
BelowThreshold_Inclusive(score) == score <= QUALITY_THRESHOLD

\* score < QUALITY_THRESHOLD
BelowThreshold(score) == score < QUALITY_THRESHOLD

\* "Agent 실행이 실패했거나 결과가 비어있습니다."
ReasonFailedOrEmpty == <<Tok("reasonFailedOrEmpty", "")>>

\* `결과 품질이 낮습니다 (score: ${score.toFixed(2)}).`
ReasonLowScore(score) == <<Tok("reasonLowScore", ToString(score))>>

\* suggestionSchema: refinedQuery and targetAgent are optional (<< >> and "" when absent).
Suggestion(id, actionType, refinedQuery, targetAgent) ==
  [id |-> id, actionType |-> actionType, refinedQuery |-> refinedQuery,
   targetAgent |-> targetAgent]

NoSuggestion == Suggestion("", "", << >>, "")

\* What suggestionSchema admits of one suggestion of the collaborator: either tag, with
\* or without each optional field.
SuggestionShapes ==
  {[actionType |-> "refine", refinedQuery |-> refinedQueryText, targetAgent |-> ""],
   [actionType |-> "refine", refinedQuery |-> refinedQueryText, targetAgent |-> "datahub"],
   [actionType |-> "reroute", refinedQuery |-> << >>, targetAgent |-> ""]}
    \cup {[actionType |-> "reroute", refinedQuery |-> << >>, targetAgent |-> t] :
            t \in RunTargetIds}

\* The shapes the second suggestion of a list is drawn from.
SecondSuggestionShapes ==
  {[actionType |-> "refine", refinedQuery |-> refinedQueryText, targetAgent |-> ""],
   [actionType |-> "reroute", refinedQuery |-> << >>, targetAgent |-> "atlassian"]}

\* What finalResponserAgent.generate may do: return suggestions (two of them, with the
\* ids the prompt asks for), or throw.
SuggestionOutcomes ==
  {[threw |-> FALSE,
    suggestions |-> <<Suggestion("suggest-1", a.actionType, a.refinedQuery, a.targetAgent),
                      Suggestion("suggest-2", b.actionType, b.refinedQuery, b.targetAgent)>>] :
     a \in SuggestionShapes, b \in SecondSuggestionShapes}
    \cup {[threw |-> TRUE, suggestions |-> << >>]}

\* generateSuggestions whose catch block returns the refine suggestion only.
generateSuggestions_RefineOnly(userMessage, availableAgents, outcome) ==
  IF ~outcome.threw
    THEN outcome.suggestions
    ELSE <<Suggestion("suggest-fallback-1", "refine", userMessage, "")>>

\* generateSuggestions: the collaborator's suggestions, or the fallback of the catch block.
generateSuggestions(userMessage, availableAgents, outcome) ==
  IF ~outcome.threw
    THEN outcome.suggestions
    ELSE <<Suggestion("suggest-fallback-1", "refine", userMessage, "")>>
           \o (IF Len(availableAgents) > 0
                 THEN <<Suggestion("suggest-fallback-2", "reroute", << >>, availableAgents[1])>>
                 ELSE << >>)

\* The payload buildSuspendPayload returns: the metadata, originalQuery and suggestions.
GatePayload(reason, score, originalSource, activeMcpIds, suggestions) ==
  buildSuspendPayload(reason, score, originalSource, activeMcpIds)
    @@ [originalQuery |-> originalMessage, suggestions |-> suggestions]

NoGatePayload ==
  [reason |-> << >>, score |-> 0, originalSource |-> "", availableAgents |-> << >>,
   originalQuery |-> << >>, suggestions |-> << >>]

\* The plans the branch is entered with: a validated classifier output, or the plan the
\* user selected on a resume of classify-intent.
GatePlans(activeMcpIds) ==
  {validateClassification(llm, activeMcpIds) : llm \in RunClassifierOutputs}
    \cup {[type |-> "agent", targets |-> tg, queries |-> Range(tg),
           reasoning |-> <<Tok("selectedPlan", "")>>, executionMode |-> em] :
            tg \in {t \in TargetArrays : Len(t) > 0 /\ Range(t) \subseteq RunTargetIds},
            em \in ExecutionModes}

\* What .branch() and .map() hand the gate for a plan: the result, the workers invoked
\* for it and the workflow state.
GateInput(p, activeMcpIds, outcomes) ==
  CASE p.type = "simple" ->
         [inputData |-> directResponseStep(p), producers |-> << >>, state |-> InitialState,
          active |-> activeMcpIds]
    [] p.type = "agent" ->
         LET r == agentStep(p, activeMcpIds, InitialState, outcomes)
         IN  [inputData |-> r.result, producers |-> r.invoked, state |-> r.state,
              active |-> activeMcpIds]
    [] OTHER ->
         [inputData |-> MapBranchOutput(NoBranchOutput), producers |-> << >>,
          state |-> InitialState, active |-> activeMcpIds]

GateInputs ==
  {GateInput(p, active, outcomes) :
     <<active, p>> \in {<<a, q>> \in (SUBSET GateActiveIds) \X
                                      UNION {GatePlans(b) : b \in SUBSET GateActiveIds} :
                          q \in GatePlans(a)},
     outcomes \in [1..MaxTargets -> WorkerOutcomes]}

\* suspend(payload): the step is suspended once generateSuggestions has settled.
GateSuspends(reason, score) ==
  /\ qcPayload' = GatePayload(reason, score, qcInput.source, qcActive, << >>)
  /\ qcPc' = "suggesting"
  /\ UNCHANGED qcOutput

\* return inputData
GatePasses ==
  /\ qcOutput' = qcInput
  /\ qcPc' = "returned"
  /\ UNCHANGED qcPayload

\* quality-check.execute with no resumeData, up to the await of generateSuggestions.
GateEnter ==
  /\ qcPc = "enter"
  /\ IF ~qcInput.success \/ IsBlank(qcInput.content)
       THEN GateSuspends(ReasonFailedOrEmpty, 0) /\ UNCHANGED qcScore
       ELSE IF qcInput.source = "direct"
         THEN GatePasses /\ UNCHANGED qcScore
         ELSE \E score \in Scores :
                /\ qcScore' = score
                /\ IF BelowThreshold(score) THEN GateSuspends(ReasonLowScore(score), score)
                                            ELSE GatePasses
  /\ UNCHANGED << qcInput, qcActive, qcState, qcProducers, qcSuggestThrew, qcResume,
                  qcChosen, qcCalls >>
  /\ UNCHANGED otherThanGate

\* generateSuggestions settles, buildSuspendPayload returns and suspend() is called.
GateSuggest ==
  /\ qcPc = "suggesting"
  /\ \E outcome \in SuggestionOutcomes :
       /\ qcPayload' = [qcPayload EXCEPT !.suggestions =
                          generateSuggestions(originalMessage, qcPayload.availableAgents,
                                              outcome)]
       /\ qcSuggestThrew' = outcome.threw
  /\ qcPc' = "suspended"
  /\ UNCHANGED << qcInput, qcActive, qcState, qcProducers, qcScore, qcResume, qcChosen,
                  qcCalls, qcOutput >>
  /\ UNCHANGED otherThanGate

\* The resume path up to its return, for resumeData `data`.
GateResumeReturns(data, chosen, outcome) ==
  LET target == GateResumeCall(qcInput, data)
      r == GateResumeResult(qcInput, data, outcome)
  IN  /\ qcResume' = data
      /\ qcChosen' = chosen
      /\ qcCalls' = [i \in 1..Len(r.invoked) |->
                       [worker |-> r.invoked[i], prompt |-> target.prompt, outcome |-> outcome]]
      /\ qcOutput' = r.result
      /\ qcScore' = NoScore
      /\ qcPc' = "returned"
      /\ UNCHANGED << qcInput, qcActive, qcState, qcProducers, qcSuggestThrew, qcPayload >>

\* The resume requests that reach the gate with refine or reroute.
GateTypedResumeDatas ==
  {[NoResumeData EXCEPT !.action = a, !.targetAgent = t, !.userFeedback = f] :
     a \in {"refine", "reroute"}, t \in GateActiveIds \cup {UnknownId, ""},
     f \in {<< >>, feedbackText}}

\* quality-check.execute resumed with action refine or reroute.
GateResume ==
  /\ qcPc = "suspended"
  /\ \E data \in GateTypedResumeDatas, outcome \in WorkerOutcomes :
       GateResumeReturns(data, NoSuggestion, outcome)
  /\ UNCHANGED otherThanGate

\* handleSuggestionClick: the resumeData of a click on suggestion s.
SuggestionResumeData(s) ==
  [NoResumeData EXCEPT !.action = "suggestion", !.refinedQuery = s.refinedQuery,
                       !.targetAgent = s.targetAgent]

\* quality-check.execute resumed with action suggestion, for a suggestion of the payload.
GateSuggestionResume ==
  /\ qcPc = "suspended"
  /\ \E i \in 1..Len(qcPayload.suggestions), outcome \in WorkerOutcomes :
       GateResumeReturns(SuggestionResumeData(qcPayload.suggestions[i]),
                         qcPayload.suggestions[i], outcome)
  /\ UNCHANGED otherThanGate

\* quality-check.execute resumed with action dismiss: bail().
GateBail ==
  /\ qcPc = "suspended"
  /\ qcResume' = [NoResumeData EXCEPT !.action = "dismiss"]
  /\ qcOutput' = AgentResult(qcInput.source, <<Tok("dismissed", "")>>, TRUE)
  /\ qcScore' = NoScore
  /\ qcPc' = "bailed"
  /\ UNCHANGED << qcInput, qcActive, qcState, qcProducers, qcSuggestThrew, qcPayload,
                  qcChosen, qcCalls >>
  /\ UNCHANGED otherThanGate

GateParked ==
  /\ qcPc = "parked"
  /\ qcInput = Undefined
  /\ qcActive = {}
  /\ qcState = InitialState
  /\ qcProducers = << >>
  /\ qcScore = NoScore
  /\ qcSuggestThrew = FALSE
  /\ qcPayload = NoGatePayload
  /\ qcResume = NoResumeData
  /\ qcChosen = NoSuggestion
  /\ qcCalls = << >>
  /\ qcOutput = Undefined

(***************************************************************************)
(* The /chat handler over the workflow's run store.  What a run does       *)
(* between run.start or run.resume and its result is the workflow's        *)
(* business: here it is a choice among the results a run can end with.     *)
(***************************************************************************)
\* The workflow states a run may be left with.
ChatStates ==
  {InitialState,
   [executionTargets |-> <<"atlassian", "datahub">>, executionMode |-> "sequential"]}

\* What a run.start() and a run.resume() of classify-intent may resolve with: the
\* status, the suspended step and the workflow state.
StartResults ==
  {[status |-> "success", suspendedStep |-> "", state |-> st] : st \in ChatStates}
    \cup {[status |-> "failed", suspendedStep |-> "", state |-> InitialState]}
    \cup {[status |-> "suspended", suspendedStep |-> "quality-check", state |-> st] :
            st \in ChatStates}
    \cup {[status |-> "suspended", suspendedStep |-> "classify-intent",
           state |-> InitialState]}

\* What a run.resume() of the run `run` at quality-check may resolve with.
GateResumeResults(run) ==
  {[status |-> st, suspendedStep |-> "", state |-> run.state] : st \in {"success", "failed"}}

\* A stored run: the message and the initial state it was started with, and its result.
StoredRun(message, initialState, result) ==
  [message |-> message, initialState |-> initialState, status |-> result.status,
   suspendedStep |-> result.suspendedStep, state |-> result.state]

\* The request bodies: runId (0: absent), resumeData ("none": absent, "new": its action
\* is new, "other": anything else), suspendedStep and resumeData.userFeedback; the
\* fields the handler does not read for the resumeData in hand are left out.
ChatBodies ==
  {b \in [runId : 0..MaxRuns, resumeData : {"none", "new", "other"},
          suspendedStep : SuspendedStepFields, userFeedback : {<< >>, feedbackText}] :
     /\ b.resumeData = "none" => b.runId = 0
     /\ b.resumeData # "new" => b.userFeedback = << >>
     /\ b.resumeData # "other" => b.suspendedStep = ""}

NoBody == [runId |-> 0, resumeData |-> "none", suspendedStep |-> "", userFeedback |-> << >>]

\* workflow.createRun({ runId: body.runId }): the run is stored under the id given.
NewRunId_OfBody(runs, body) == body.runId

\* workflow.createRun(): the run gets an id no stored run has.
NewRunId(runs, body) == Len(runs) + 1

\* The store with `run` kept under `id`.
PutRun(runs, id, run) ==
  IF id \in DOMAIN runs THEN [runs EXCEPT ![id] = run] ELSE Append(runs, run)

\* The response for a result: suspended with the run id and the step, or completed with
\* result.result.response, or with the default text when there is none.
ChatResponse(id, result) ==
  IF result.status = "suspended"
    THEN Response("suspended", id, result.suspendedStep, "none")
    ELSE Response("completed", 0, "", IF result.status = "success" THEN "response"
                                                                  ELSE "default")

\* createRun() and run.start({ inputData: { message }, initialState }).
PostStarts(body, message) ==
  \E result \in StartResults :
    LET id == NewRunId(chRuns, body)
    IN  /\ chRuns' = PutRun(chRuns, id, StoredRun(message, InitialState, result))
        /\ chResponse' = ChatResponse(id, result)
        /\ chLast' = [body |-> body, created |-> id]

\* createRun({ runId }) and run.resume({ step, resumeData }): resume() rejects unless
\* the run is stored and suspended at that step, and the catch block answers error.
PostResumes(body) ==
  LET step == IF body.suspendedStep # "" THEN body.suspendedStep ELSE "classify-intent"
      id == body.runId
  IN  IF id \in DOMAIN chRuns /\ chRuns[id].status = "suspended"
           /\ chRuns[id].suspendedStep = step
        THEN \E result \in IF step = "quality-check" THEN GateResumeResults(chRuns[id])
                                                      ELSE StartResults :
               /\ chRuns' = [chRuns EXCEPT ![id] =
                               StoredRun(chRuns[id].message, chRuns[id].initialState, result)]
               /\ chResponse' = ChatResponse(id, result)
               /\ chLast' = [body |-> body, created |-> 0]
        ELSE /\ chResponse' = Response("error", 0, "", "none")
             /\ chLast' = [body |-> body, created |-> 0]
             /\ UNCHANGED chRuns

\* POST /chat: the handler from the body to the response.
PostChat(body) ==
  /\ Len(chRuns) < MaxRuns
  /\ IF body.runId # 0 /\ body.resumeData # "none"
       THEN IF body.resumeData = "new"
              THEN PostStarts(body, body.userFeedback)
              ELSE PostResumes(body)
       ELSE PostStarts(body, originalMessage)
  /\ UNCHANGED otherThanChat

ChatParked ==
  /\ chRuns = << >>
  /\ chResponse = NoResponse
  /\ chLast = [body |-> NoBody, created |-> 0]

(***************************************************************************)
(* Per-user MCP activation (user-activation.ts).  The table                *)
(* user_mcp_activations has primary key (user_id, mcp_id); a SELECT gives  *)
(* its rows in no particular order, so query results are sets.             *)
(***************************************************************************)
ActivationUsers == {"u1", "u2"}

\* SELECT mcp_id, active FROM user_mcp_activations WHERE user_id = $1
RowsOf(table, userId) == {r \in table : r.user_id = userId}

\* getUserActiveMcpIds(userId): every registry id when the user has no row at all,
\* otherwise the mcp_id of the rows with active = true.
getUserActiveMcpIds(table, userId) ==
  LET rows == RowsOf(table, userId)
  IN  IF rows = {} THEN AllMcpIdSet
      ELSE {r.mcp_id : r \in {x \in rows : x.active}}

\* INSERT ... ON CONFLICT (user_id, mcp_id) DO UPDATE SET active = $3
Upsert(table, userId, mcpId, active) ==
  {r \in table : ~(r.user_id = userId /\ r.mcp_id = mcpId)}
    \cup {[user_id |-> userId, mcp_id |-> mcpId, active |-> active]}

\* getUserMcpStatuses(userId): one status per registry entry, in registry order;
\* activationMap.get(entry.id) ?? true.
getUserMcpStatuses(table, userId) ==
  [i \in 1..Len(MCP_REGISTRY) |->
     LET rows == {r \in RowsOf(table, userId) : r.mcp_id = MCP_REGISTRY[i].id}
     IN  [id |-> MCP_REGISTRY[i].id,
          active |-> IF rows = {} THEN TRUE ELSE \A r \in rows : r.active]]

NoActivationCall == [userId |-> "", mcpId |-> "", active |-> FALSE, threw |-> FALSE]

\* setUserMcpActivation(userId, mcpId, active): throws for an id that is not in the
\* registry, otherwise upserts the row.
setUserMcpActivation(userId, mcpId, active) ==
  /\ IF mcpId \in AllMcpIdSet
       THEN /\ activations' = Upsert(activations, userId, mcpId, active)
            /\ actLast' = [userId |-> userId, mcpId |-> mcpId, active |-> active,
                           threw |-> FALSE]
       ELSE /\ activations' = activations
            /\ actLast' = [userId |-> userId, mcpId |-> mcpId, active |-> active,
                           threw |-> TRUE]
  /\ UNCHANGED otherThanActivation

ActivationParked ==
  /\ activations = {}
  /\ actLast = NoActivationCall


(***************************************************************************)
(* Tool result cache (withToolCache).  A JSON value is a primitive or an   *)
(* object; an object is a function from its property names to values.     *)
(* Serialised text is a sequence of tokens.                                *)
(***************************************************************************)
\* const KEY_PREFIX = "tool-cache:"
KEY_PREFIX == "tool-cache:"

\* The tools handed to withToolCache, and options.exclude.
ToolNames == {"search", "update"}
ExcludedTools == {"update"}

\* Property names, in the order Array.prototype.sort() gives them.
PropertyNames == <<"a", "b">>
PropertyNameSet == {PropertyNames[i] : i \in 1..Len(PropertyNames)}
Primitives == {"1", "2"}

NoProps == [k \in {} |-> ""]
Prim(v) == [kind |-> "prim", prim |-> v, props |-> NoProps]
Obj(props) == [kind |-> "obj", prim |-> "", props |-> props]

\* Objects whose properties are primitives, and the values a tool input can hold.
FlatObjects == UNION {[D -> {Prim(v) : v \in Primitives}] : D \in SUBSET PropertyNameSet}
InputValues == {Prim(v) : v \in Primitives} \cup {Obj(f) : f \in FlatObjects}

\* The inputs of a wrapped execute: objects up to two levels deep.
ToolInputs == UNION {[D -> InputValues] : D \in SUBSET PropertyNameSet}

\* Object.keys(obj).sort()
SortedKeys(obj) == SelectSeq(PropertyNames, LAMBDA k : k \in DOMAIN obj)

\* JSON.stringify(value, replacer) with an array replacer: at EVERY level of nesting
\* an object's properties are written in the order of the replacer array, and only
\* those whose name is in it.  (Each member is followed by "," here, where JSON puts
\* the comma between members; the texts of two values are equal in one form exactly
\* when they are in the other.)
RECURSIVE JSONStringify(_, _)
RECURSIVE JSONMembers(_, _, _)
JSONStringify(value, replacer) ==
  IF value.kind = "prim"
    THEN <<value.prim>>
    ELSE <<"{">> \o JSONMembers(value.props, replacer, 1) \o <<"}">>

JSONMembers(props, replacer, i) ==
  IF i > Len(replacer) THEN << >>
  ELSE (IF replacer[i] \in DOMAIN props
          THEN <<replacer[i], ":">> \o JSONStringify(props[replacer[i]], replacer) \o <<",">>
          ELSE << >>)
       \o JSONMembers(props, replacer, i + 1)

\* makeKey(toolId, input):
\* `${KEY_PREFIX}${toolId}:${JSON.stringify(obj, Object.keys(obj).sort())}`
makeKey(toolId, input) ==
  <<KEY_PREFIX, toolId, ":">> \o JSONStringify(Obj(input), SortedKeys(input))

\* What originalExecute(input, context) of tool `name` resolves with: the result is
\* tagged with the call that produced it.
originalExecute(name, input) == [tool |-> name, input |-> input]

NoToolCall == [tool |-> "", input |-> NoProps, hit |-> FALSE,
               returned |-> originalExecute("", NoProps)]

\* client.get(key): the value stored under key, if any.
RedisGet(key) == {e \in redisStore : e.key = key}

\* client.setex(key, ttlSec, value)
RedisSetex(key, value) ==
  {e \in redisStore : e.key # key} \cup {[key |-> key, value |-> value]}

\* wrapped[name].execute(input): an excluded tool is the original tool.  Otherwise
\* the key is looked up (canRead: a client exists and get() does not throw); a hit
\* is returned, a miss calls originalExecute and stores its result (canWrite: a
\* client exists and setex() does not throw).
Execute(name, input, canRead, canWrite) ==
  /\ tcCalls < MaxToolCalls
  /\ tcCalls' = tcCalls + 1
  /\ LET key == makeKey(name, input)
         cached == RedisGet(key)
     IN  IF name \in ExcludedTools
           THEN /\ tcLast' = [tool |-> name, input |-> input, hit |-> FALSE,
                              returned |-> originalExecute(name, input)]
                /\ redisStore' = redisStore
           ELSE IF canRead /\ cached # {}
             THEN /\ tcLast' = [tool |-> name, input |-> input, hit |-> TRUE,
                                returned |-> (CHOOSE e \in cached : TRUE).value]
                  /\ redisStore' = redisStore
             ELSE /\ tcLast' = [tool |-> name, input |-> input, hit |-> FALSE,
                                returned |-> originalExecute(name, input)]
                  /\ redisStore' = IF canWrite
                                     THEN RedisSetex(key, originalExecute(name, input))
                                     ELSE redisStore
  /\ UNCHANGED otherThanToolCache

\* A key reaches its TTL (SETEX) and Redis drops it.
Expire ==
  /\ \E e \in redisStore : redisStore' = redisStore \ {e}
  /\ UNCHANGED << tcCalls, tcLast >>
  /\ UNCHANGED otherThanToolCache

ToolCacheParked ==
  /\ redisStore = {}
  /\ tcCalls = 0
  /\ tcLast = NoToolCall

(***************************************************************************)
(* Specifications.                                                         *)
(***************************************************************************)
\* The ids getToolsets is called with: a plain MCPClient id whose configuration the
\* environment decides, one that is always configured, the fallback id, and an id
\* outside the registry.  ("data-analyst" behaves as "atlassian" with no configuration.)
PoolIds == {"atlassian", "google-search", "datahub", UnknownId}

PoolInit ==
  /\ connections = << >>
  /\ fallbackCache = NoCache
  /\ cleanupTimer = TRUE
  /\ now = 0
  /\ nTicks = 0
  /\ nIdle = 0
  /\ lastSweep = 0
  /\ atlassianCfg \in CfgOutcomes
  /\ clients = << >>
  /\ call = [c \in Callers |-> IdleCall]
  /\ nCalls = 0
  /\ sweep = IdleSweep
  /\ shutdown = IdleShutdown
  /\ poolLog = Log("init", "", 0, 0)
  /\ ClassifyParked
  /\ RunParked
  /\ LoopParked
  /\ AgentParked
  /\ GateParked
  /\ ChatParked
  /\ ActivationParked
  /\ ToolCacheParked

PoolNext ==
  \/ \E c \in Callers, id \in PoolIds : GetToolsets(c, id)
  \/ \E c \in Callers : ListToolsetsOk(c)
  \/ \E c \in Callers : ListToolsetsThrows(c)
  \/ \E c \in Callers : StaleDisconnected(c)
  \/ \E c \in Callers : ConnectOk(c)
  \/ \E c \in Callers : ConnectFails(c)
  \/ \E c \in Callers : FallbackOk(c)
  \/ \E c \in Callers : FallbackFails(c)
  \/ CleanupIdle
  \/ SweepDisconnected
  \/ SweepFallbackCleaned
  \/ DisconnectAll
  \/ \E p \in shutdown.pending : DisconnectAllOne(p)
  \/ DisconnectAllFallback
  \/ Tick
  \/ IdlePeriod

ClassifyInit ==
  /\ vcResult \in ClassifierOutputs
  /\ vcActiveMcpIds \in SUBSET AllMcpIdSet
  /\ vcReturned = NoPlan
  /\ PoolParked
  /\ RunParked
  /\ LoopParked
  /\ AgentParked
  /\ GateParked
  /\ ChatParked
  /\ ActivationParked
  /\ ToolCacheParked

ClassifyNext == ValidateClassification

RunInit ==
  /\ RunParked
  /\ PoolParked
  /\ ClassifyParked
  /\ LoopParked
  /\ AgentParked
  /\ GateParked
  /\ ChatParked
  /\ ActivationParked
  /\ ToolCacheParked

RunNext ==
  \/ ChatStart
  \/ ChatNew
  \/ \E stepField \in SuspendedStepFields : ChatResume(stepField)
  \/ ChatRejected
  \/ ClassifyIntent
  \/ ClassifyIntentReclassify
  \/ ClassifyIntentSelectedPlan
  \/ ClassifyIntentThrows
  \/ DirectResponse
  \/ AgentStep
  \/ BranchNoMatch
  \/ MapStep
  \/ QualityCheck
  \/ QualityCheckDismiss
  \/ QualityCheckResume
  \/ Synthesize
  \/ SynthesizeThrows

SpecPool == PoolInit /\ [][PoolNext]_vars

SpecClassify == ClassifyInit /\ [][ClassifyNext]_vars

SpecRun == RunInit /\ [][RunNext]_vars

LoopInit ==
  /\ LoopParked
  /\ PoolParked
  /\ ClassifyParked
  /\ RunParked
  /\ AgentParked
  /\ GateParked
  /\ ChatParked
  /\ ActivationParked
  /\ ToolCacheParked

LoopNext ==
  \/ LoopPlanning
  \/ LoopPlanningResume
  \/ LoopAnswering
  \/ LoopDelegating
  \/ LoopNoBranch
  \/ LoopScoring
  \/ LoopSynthesize

SpecLoop == LoopInit /\ [][LoopNext]_vars

AgentInit ==
  /\ asPc = "start"
  /\ asInput \in AgentPlans
  /\ asActive \in SUBSET AgentTargetIds
  /\ asState \in AgentPriorStates
  /\ asTargets = << >>
  /\ asStage = << >>
  /\ asPrevious = << >>
  /\ asAllResults = << >>
  /\ asParts = << >>
  /\ asPrompts = << >>
  /\ asAcquired = << >>
  /\ asTexts = << >>
  /\ asResult = Undefined
  /\ PoolParked
  /\ ClassifyParked
  /\ RunParked
  /\ LoopParked
  /\ GateParked
  /\ ChatParked
  /\ ActivationParked
  /\ ToolCacheParked

AgentNext ==
  \/ AgentStepStart
  \/ \E i \in 1..MaxTargets : AgentAcquired(i)
  \/ \E i \in 1..MaxTargets : AgentGenerated(i)

SpecAgent == AgentInit /\ [][AgentNext]_vars

GateInit ==
  /\ qcPc = "enter"
  /\ \E g \in GateInputs :
       /\ qcInput = g.inputData
       /\ qcActive = g.active
       /\ qcState = g.state
       /\ qcProducers = g.producers
  /\ qcScore = NoScore
  /\ qcSuggestThrew = FALSE
  /\ qcPayload = NoGatePayload
  /\ qcResume = NoResumeData
  /\ qcChosen = NoSuggestion
  /\ qcCalls = << >>
  /\ qcOutput = Undefined
  /\ PoolParked
  /\ ClassifyParked
  /\ RunParked
  /\ LoopParked
  /\ AgentParked
  /\ ChatParked
  /\ ActivationParked
  /\ ToolCacheParked

GateNext ==
  \/ GateEnter
  \/ GateSuggest
  \/ GateResume
  \/ GateSuggestionResume
  \/ GateBail

SpecGate == GateInit /\ [][GateNext]_vars

ChatInit ==
  /\ ChatParked
  /\ PoolParked
  /\ ClassifyParked
  /\ RunParked
  /\ LoopParked
  /\ AgentParked
  /\ GateParked
  /\ ActivationParked
  /\ ToolCacheParked

ChatNext == \E body \in ChatBodies : PostChat(body)

SpecChat == ChatInit /\ [][ChatNext]_vars

ActivationInit ==
  /\ ActivationParked
  /\ PoolParked
  /\ ClassifyParked
  /\ RunParked
  /\ LoopParked
  /\ AgentParked
  /\ GateParked
  /\ ChatParked
  /\ ToolCacheParked

ActivationNext ==
  \E userId \in ActivationUsers, mcpId \in AllMcpIdSet \cup {UnknownId}, active \in BOOLEAN :
    setUserMcpActivation(userId, mcpId, active)

SpecActivation == ActivationInit /\ [][ActivationNext]_vars

ToolCacheInit ==
  /\ ToolCacheParked
  /\ PoolParked
  /\ ClassifyParked
  /\ RunParked
  /\ LoopParked
  /\ AgentParked
  /\ GateParked
  /\ ChatParked
  /\ ActivationParked

ToolCacheNext ==
  \/ \E name \in ToolNames, input \in ToolInputs, canRead \in BOOLEAN, canWrite \in BOOLEAN :
       Execute(name, input, canRead, canWrite)
  \/ Expire

SpecToolCache == ToolCacheInit /\ [][ToolCacheNext]_vars

(***************************************************************************)
(* Claims about the connection manager (specification SpecPool).           *)
(***************************************************************************)
BuildInFlight(c) == call[c].pc \in {"connecting", "fbBuilding"}

\* C1: overlapping getToolsets calls for one serviceId that has no cache entry build
\* exactly one backing client: a later caller waits for the build in flight instead of
\* starting its own, and all the calls return the toolsets of the one cached client.
C1_SingleFlight ==
  \A a, b \in Callers :
    /\ (a # b /\ BuildInFlight(a) /\ BuildInFlight(b) /\ call[a].mcpId = call[b].mcpId)
         => call[a].client = call[b].client
    /\ (a # b /\ call[a].pc = "done" /\ call[a].ret.kind = "toolsets"
          /\ call[b].mcpId = call[a].mcpId /\ BuildInFlight(b))
         => call[b].client = call[a].ret.client

\* C2: the idle sweep never removes (or disconnects) an entry whose lastUsed was
\* refreshed less than the idle TTL ago, whatever the interleaving with getToolsets.
C2_SweepSparesFreshEntries ==
  /\ poolLog.op \in {"sweepDelete", "sweepFallbackDelete"} => poolLog.idle > idleTtlMs
  /\ \A c \in Callers :
       (sweep.pc = "disconnecting" /\ call[c].pc = "listing")
         => call[c].client # sweep.client

\* C3: an entry idle for longer than the TTL is not found in the cache by the next
\* getToolsets call for its serviceId (that call builds a new connection).
C3_IdleEntryAbsentOnAcquire ==
  poolLog.op \in {"cacheHit", "fallbackHit"} => poolLog.idle <= idleTtlMs

\* C4: getToolsets never throws, for any serviceId and any failure.
C4_GetToolsetsNeverThrows ==
  \A c \in Callers : call[c].ret.kind # "threw"

\* C5: when disconnectAll returns the sweep timer is cancelled, every client that was
\* cached is disconnected, and the cache holds no connection and no fallback entry.
C5_DisconnectAllEmptiesCache ==
  poolLog.op = "disconnectAllReturned" =>
    /\ ~cleanupTimer
    /\ \A k \in shutdown.cached : clients[k].state = "disconnected"
    /\ connections = << >>
    /\ fallbackCache = NoCache

(***************************************************************************)
(* Claims about classification (specification SpecClassify).               *)
(***************************************************************************)
\* C7: for a classifier output of type agent, validateClassification returns type simple
\* with empty targets and empty queries when none of the targets is enabled, and otherwise
\* type agent with the enabled targets in their original order; an output of type simple,
\* clarify or ambiguous is returned unchanged.
C7_ValidateClassification ==
  vcReturned # NoPlan =>
    IF vcResult.type = "agent"
      THEN IF \A i \in 1..Len(vcResult.targets) : vcResult.targets[i] \notin vcActiveMcpIds
             THEN /\ vcReturned.type = "simple"
                  /\ vcReturned.targets = << >>
                  /\ vcReturned.queries = {}
             ELSE /\ vcReturned.type = "agent"
                  /\ Range(vcReturned.targets) \subseteq vcActiveMcpIds
                  /\ Len(vcReturned.targets) =
                       Cardinality({i \in 1..Len(vcResult.targets) :
                                      vcResult.targets[i] \in vcActiveMcpIds})
                  /\ \E f \in [1..Len(vcReturned.targets) -> 1..Len(vcResult.targets)] :
                       /\ \A i \in 1..Len(vcReturned.targets) :
                            vcReturned.targets[i] = vcResult.targets[f[i]]
                       /\ \A i, j \in 1..Len(vcReturned.targets) : i < j => f[i] < f[j]
      ELSE vcReturned = vcResult

\* C7 witness: a two-target agent plan lost its disabled first target and kept the second.
C7_Witness ==
  /\ vcResult.type = "agent"
  /\ Len(vcResult.targets) = 2
  /\ vcResult.targets[1] \notin vcActiveMcpIds
  /\ vcResult.targets[2] \in vcActiveMcpIds
  /\ vcReturned.type = "agent"
  /\ vcReturned.targets = <<vcResult.targets[2]>>

(***************************************************************************)
(* Claims about a run of chatWorkflow (specification SpecRun).             *)
(***************************************************************************)
\* C6: in any run no worker whose id is outside the request's activeMcpIds is invoked,
\* on any path: the agent step in single, parallel or sequential mode, a plan the user
\* chose when resuming an ambiguous classification, or a refine, reroute or suggestion
\* resume of the quality gate.
C6_NoDisabledWorkerInvoked ==
  \A i \in 1..Len(invokedWorkers) : invokedWorkers[i] \in reqActive

\* C9: whenever a run suspends, the step that suspended is recorded with the run and
\* reported; a resume request for that run delivers its resumeData to that same step;
\* and a resume of a run suspended at quality-check executes none of the steps that
\* completed before the suspension.
C9_ResumeReachesSuspendedStep ==
  /\ response.status = "suspended" =>
       /\ runStatus = "suspended"
       /\ suspendedStep \in {"classify-intent", "quality-check"}
       /\ response.suspendedStep = suspendedStep
  /\ lastResume.recorded # "" =>
       /\ lastResume.accepted
       /\ lastResume.step = lastResume.recorded
  /\ (reqKind = "resume" /\ lastResume.recorded = "quality-check") =>
       reqSteps \cap {"classify-intent", "direct-response", "agent-step"} = {}

IsAgentResult(r) ==
  /\ DOMAIN r = {"source", "content", "success"}
  /\ r.success \in BOOLEAN

\* The outputs .branch() of the multi-branch variant can give: no branch ran, or one did.
BranchOutputsV1 ==
  LET none == [k \in Range(BranchStepIdsV1) |-> Undefined]
  IN  {none} \cup {[none EXCEPT ![k] = AgentResult(k, c, ok)] :
                     k \in Range(BranchStepIdsV1),
                     c \in {<< >>, <<Tok("out", "")>>}, ok \in BOOLEAN}

\* C10: every path through the branch (type simple -> direct response, type agent ->
\* agent step, no branch condition matching) hands quality-check exactly one AgentResult
\* {source, content, success}: the gate runs, and is suspended, on nothing else.
C10_GateGetsOneAgentResult ==
  /\ pc \in {"gate", "gateResume"} => IsAgentResult(gateIn)
  /\ (runStatus = "suspended" /\ suspendedStep = "quality-check") => IsAgentResult(gateIn)
  /\ \A bo \in BranchOutputsV1 : IsAgentResult(MapBranchOutputV1(bo))

\* C10 witness: no branch condition matched (a reclassification returned type clarify)
\* and the gate is about to run on the fallback result.
C10_Witness ==
  /\ pc = "gate"
  /\ "classify-intent" \in reqSteps
  /\ reqSteps \cap BranchStepIds = {}
  /\ gateIn = AgentResult("unknown", << >>, FALSE)

FeedbackIterationsIn(prompt) ==
  {prompt[i].of : i \in {j \in 1..Len(prompt) : prompt[j].t = "feedbackIteration"}}

Contains(text, part) ==
  \E k \in 0..(Len(text) - Len(part)) : SubSeq(text, k + 1, k + Len(part)) = part

\* The positions of activeTargets whose invocation returned, and those where it threw.
SucceededAt == {i \in DOMAIN asStage : asStage[i] = "done"}
ThrewAt == {i \in DOMAIN asStage : asStage[i] = "threw"}

ParallelReturned ==
  /\ asPc = "returned"
  /\ Len(asTargets) >= 2
  /\ ~IsSequential(asTargets, asInput.executionMode)

\* C13: in parallel mode with two or more enabled targets the result's success flag is
\* true if and only if the invocation of at least one target succeeded; in particular
\* it is false when every invocation failed.
C13_ParallelSuccessIffOneSucceeded ==
  ParallelReturned => (asResult.success <=> SucceededAt # {})

\* C14: with two or more enabled targets, in parallel and in sequential mode, when the
\* invocation of one target throws, the result carries a failure-labelled contribution
\* for that target, every other target with a registry entry has been invoked as well,
\* and the outputs obtained from other targets are part of the final content.
C14_ThrowKeepsTheRest ==
  (asPc = "returned" /\ Len(asTargets) >= 2) =>
    \A i \in ThrewAt :
      /\ Contains(asResult.content, Label(asTargets[i]) \o <<Tok("error", asTargets[i])>>)
      /\ \A j \in DOMAIN asStage : asStage[j] \in {"done", "threw", "skipped"}
      /\ \A j \in SucceededAt : Contains(asResult.content, asTexts[j])

\* C15: agentStep returns an AgentResult for every plan and no exception reaches the
\* workflow; when acquiring a connection or invoking a worker threw and no invocation
\* succeeded, the result has success = false.
C15_NoExceptionEscapes ==
  /\ asPc # "threw"
  /\ asPc = "returned" =>
       /\ DOMAIN asResult = {"source", "content", "success"}
       /\ (ThrewAt # {} /\ SucceededAt = {}) => ~asResult.success

\* C16: in sequential mode the targets are invoked one at a time in list order: at most
\* one invocation is in progress, the invocation of a target has begun only when every
\* target before it has returned (or has no registry entry), and getToolsets and
\* agent.generate have been called in the order of the list.
C16_SequentialOneAtATime ==
  asInput.executionMode = "sequential" =>
    /\ Cardinality(InProgress(asStage)) <= 1
    /\ \A i \in DOMAIN asStage :
         asStage[i] \in {"acquiring", "generating", "done", "threw"} =>
           \A j \in 1..(i - 1) : asStage[j] \in {"done", "skipped"}
    /\ \A k \in 1..Len(asPrompts) : \A l \in 1..Len(asPrompts) :
         k < l => asPrompts[k].idx < asPrompts[l].idx
    /\ asAcquired = [k \in 1..Len(asAcquired) |->
                       SelectSeq(asTargets, LAMBDA t : getRegistryEntry(t) # NoEntry)[k]]

\* C16 witness: a sequential plan with two different targets has returned, both invoked.
C16_Witness ==
  /\ asPc = "returned"
  /\ asInput.executionMode = "sequential"
  /\ asTargets = <<"datahub", "atlassian">>
  /\ asStage = <<"done", "done">>
  /\ Len(asPrompts) = 2
  /\ asPrompts[1].target = "datahub"
  /\ asPrompts[2].target = "atlassian"

\* The prompts sent in sequential mode to a target other than the first of two or more.
LaterPrompts ==
  {n \in 1..Len(asPrompts) :
     /\ asInput.executionMode = "sequential"
     /\ Len(asTargets) >= 2
     /\ asPrompts[n].idx > 1}

\* C17: in sequential mode with two or more enabled targets, the prompt sent to target
\* i > 0 contains the full output text of target i-1.
C17_PromptCarriesPreviousOutput ==
  \A n \in LaterPrompts :
    Contains(asPrompts[n].prompt, asTexts[asPrompts[n].idx - 1])

\* C17 witness: the second target's prompt has been sent and holds the first target's
\* non-empty output.
C17_Witness ==
  \E n \in LaterPrompts :
    /\ asTexts[asPrompts[n].idx - 1] = <<Tok("out", asTargets[asPrompts[n].idx - 1])>>
    /\ Contains(asPrompts[n].prompt, asTexts[asPrompts[n].idx - 1])
    /\ asInput.queryKinds[asPrompts[n].target] = "string"

\* The queryPlan of the prompt at position n of asPrompts.
PromptQueryPlan(n) ==
  QueryPlan(asPrompts[n].target, asInput.queryKinds[asPrompts[n].target])

C19_NoEnabledTarget ==
  [][ (asPc = "start" /\ Len(FilterTargets(asInput.targets, asActive)) = 0) =>
        /\ asPc' = "returned"
        /\ ~asResult'.success
        /\ asResult'.source = "agent"
        /\ asPrompts' = << >>
        /\ asAcquired' = << >>
        /\ InProgress(asStage') = {}
        /\ asState' = asState
    ]_vars

\* C19 witness: a parallel plan naming two workers, none of them enabled, has returned
\* and the state an earlier step left is still there.
C19_Witness ==
  /\ asPc = "returned"
  /\ Len(asInput.targets) = 2
  /\ asInput.executionMode = "parallel"
  /\ asTargets = << >>
  /\ ~asResult.success
  /\ asState = [executionTargets |-> <<"atlassian">>, executionMode |-> "sequential"]

(***************************************************************************)
(* The gate and direct results.                                            *)
(***************************************************************************)
\* C20: the quality gate never suspends on a result whose source is "direct", whatever
\* its content or success flag: a run suspended at quality-check is not suspended over a
\* direct result, and a direct result the gate was handed reaches synthesize-response
\* unchanged.
C20_GateSkipsDirect ==
  /\ (runStatus = "suspended" /\ suspendedStep = "quality-check") =>
       (gateIn.source # "direct" /\ payload.originalSource # "direct")
  /\ (pc = "synth" /\ "direct-response" \in reqSteps) =>
       (gateOut.source = "direct" /\ gateOut.success)

(***************************************************************************)
(* Claims about the quality gate (specification SpecGate).                 *)
(***************************************************************************)
\* The rule check applies to the input: success is false or the content is blank.
FailedOrEmpty == ~qcInput.success \/ IsBlank(qcInput.content)

\* The gate's first execution is still the latest one.
NotResumed == qcResume = NoResumeData

\* The text names worker `id`.
Names(text, id) == \E i \in 1..Len(text) : text[i].of = id

\* C21: when a worker result has success = false or blank content, the gate suspends
\* without calling the scoring function, with score 0 and a reason that names the
\* failing source worker.
C21_FailedResultSuspends ==
  (qcPc \in {"suggesting", "suspended"} /\ NotResumed /\ FailedOrEmpty
     /\ qcInput.source \in AllMcpIdSet) =>
    /\ qcScore = NoScore
    /\ qcPayload.score = 0
    /\ Names(qcPayload.reason, qcInput.source)

\* C22: for a successful, non-blank, non-direct result the gate returns the result
\* unchanged if and only if its score is at or above QUALITY_THRESHOLD; below it the gate
\* suspends and this execution returns nothing to synthesize-response.
C22_PassIffAtThreshold ==
  (qcPc # "enter" /\ NotResumed /\ ~FailedOrEmpty /\ qcInput.source # "direct") =>
    /\ qcScore # NoScore
    /\ (qcScore >= QUALITY_THRESHOLD) <=> (qcPc = "returned" /\ qcOutput = qcInput)
    /\ (qcScore < QUALITY_THRESHOLD) =>
         (qcPc \in {"suggesting", "suspended"} /\ qcOutput = Undefined)

\* C22 witness: a worker's result scored exactly QUALITY_THRESHOLD has been returned
\* unchanged.
C22_Witness ==
  /\ qcPc = "returned"
  /\ NotResumed
  /\ qcInput.source \in AllMcpIdSet
  /\ qcScore = QUALITY_THRESHOLD
  /\ qcOutput = qcInput

\* C23: every suspend payload of the gate lists as availableAgents exactly the enabled
\* workers other than those that produced the rejected result: no disabled worker and
\* no worker that took part in producing it, also when its source is "multi-agent".
C23_AvailableAgentsExcludeProducers ==
  qcPc \in {"suggesting", "suspended"} =>
    Range(qcPayload.availableAgents) = (qcActive \cap AllMcpIdSet) \ Range(qcProducers)

\* The positions of the payload's suggestions tagged `actionType`.
SuggestionsTagged(actionType) ==
  {i \in 1..Len(qcPayload.suggestions) : qcPayload.suggestions[i].actionType = actionType}

\* C24: when the suggestion collaborator throws, the gate still suspends, and the
\* payload holds one generic refine suggestion for the original query plus one reroute
\* suggestion to an available worker when at least one is available, and nothing else.
C24_SuggestionFailureStillSuspends ==
  qcSuggestThrew =>
    /\ NotResumed => qcPc = "suspended"
    /\ Cardinality(SuggestionsTagged("refine")) = 1
    /\ \A i \in SuggestionsTagged("refine") :
         /\ qcPayload.suggestions[i].refinedQuery = originalMessage
         /\ qcPayload.suggestions[i].targetAgent = ""
    /\ Cardinality(SuggestionsTagged("reroute")) =
         (IF Len(qcPayload.availableAgents) > 0 THEN 1 ELSE 0)
    /\ \A i \in SuggestionsTagged("reroute") :
         qcPayload.suggestions[i].targetAgent \in Range(qcPayload.availableAgents)
    /\ Len(qcPayload.suggestions) =
         Cardinality(SuggestionsTagged("refine")) + Cardinality(SuggestionsTagged("reroute"))

\* C24 witness: the collaborator threw while another worker was available, and the gate
\* is suspended with the two fallback suggestions.
C24_Witness ==
  /\ qcPc = "suspended"
  /\ qcSuggestThrew
  /\ Len(qcPayload.availableAgents) > 0
  /\ Len(qcPayload.suggestions) = 2


\* C25: on a resume with action refine exactly one worker invocation happens, on the
\* worker (or workers) that produced the suspended result, with a prompt containing the
\* original message and the user's extra instructions, and the returned result is that
\* worker's output.
C25_RefineReinvokesProducers ==
  (qcPc = "returned" /\ qcResume.action = "refine" /\ Len(qcProducers) > 0) =>
    /\ Len(qcCalls) = 1
    /\ \A i \in 1..Len(qcCalls) :
         /\ qcCalls[i].worker \in Range(qcProducers)
         /\ Contains(qcCalls[i].prompt, originalMessage)
         /\ Contains(qcCalls[i].prompt, qcResume.userFeedback)
         /\ qcCalls[i].outcome # "throws" =>
              qcOutput = AgentResult(qcCalls[i].worker,
                                     WorkerText(qcCalls[i].worker, qcCalls[i].outcome), TRUE)

\* C26: on a resume with action reroute naming a worker of the registry, exactly one
\* worker invocation happens, on the named worker and on no other (not on the original
\* one), with the original message plus any extra instructions; the returned result's
\* source is the named worker, and an invocation that throws gives a result with
\* success = false.
C26_RerouteInvokesNamedWorker ==
  (qcPc = "returned" /\ qcResume.action = "reroute"
     /\ qcResume.targetAgent \in AllMcpIdSet) =>
    /\ Len(qcCalls) = 1
    /\ \A i \in 1..Len(qcCalls) :
         /\ qcCalls[i].worker = qcResume.targetAgent
         /\ qcCalls[i].prompt = WithInstructions(originalMessage, qcResume.userFeedback)
         /\ qcOutput.success <=> qcCalls[i].outcome # "throws"
         /\ qcCalls[i].outcome # "throws" =>
              qcOutput.content = WorkerText(qcCalls[i].worker, qcCalls[i].outcome)
    /\ qcOutput.source = qcResume.targetAgent

\* C26 witness: a result of atlassian was suspended, the user rerouted to google-search
\* with extra instructions, and that invocation threw.
C26_Witness ==
  /\ qcPc = "returned"
  /\ qcInput.source = "atlassian"
  /\ qcResume.action = "reroute"
  /\ qcResume.targetAgent = "google-search"
  /\ qcResume.userFeedback = feedbackText
  /\ Len(qcCalls) = 1
  /\ qcCalls[1].worker = "google-search"
  /\ qcCalls[1].outcome = "throws"
  /\ ~qcOutput.success

\* The invocations (worker and prompt) the resume path makes for resumeData `data`.
InvocationsOf(data) ==
  LET target == GateResumeCall(qcInput, data)
      r == GateResumeResult(qcInput, data, "ok")
  IN  [i \in 1..Len(r.invoked) |-> [worker |-> r.invoked[i], prompt |-> target.prompt]]

\* The invocations (worker and prompt) the resume in hand made.
InvocationsMade == [i \in 1..Len(qcCalls) |-> [worker |-> qcCalls[i].worker,
                                                prompt |-> qcCalls[i].prompt]]

\* C27: a resume with action suggestion has the effect of the action the chosen
\* suggestion encodes: for a suggestion tagged refine the worker invocation and prompt
\* of a refine resume with that suggestion's rewritten query, for a suggestion tagged
\* reroute the worker invocation of a reroute resume to that suggestion's target worker.
C27_SuggestionActsAsItsTag ==
  (qcPc = "returned" /\ qcResume.action = "suggestion") =>
    /\ qcChosen.actionType = "refine" =>
         InvocationsMade =
           InvocationsOf([NoResumeData EXCEPT !.action = "refine",
                                              !.userFeedback = qcChosen.refinedQuery])
    /\ qcChosen.actionType = "reroute" =>
         InvocationsMade =
           InvocationsOf([NoResumeData EXCEPT !.action = "reroute",
                                              !.targetAgent = qcChosen.targetAgent])

C29_NewStartsFreshRun ==
  [][LET body == chLast'.body
         id == chLast'.created
     IN  (body.resumeData = "new" /\ body.runId \in DOMAIN chRuns
            /\ chRuns[body.runId].status = "suspended") =>
           /\ id \notin DOMAIN chRuns
           /\ DOMAIN chRuns' = DOMAIN chRuns \cup {id}
           /\ \A r \in DOMAIN chRuns : chRuns'[r] = chRuns[r]
           /\ chRuns'[id].initialState =
                [executionTargets |-> << >>, executionMode |-> "parallel"]
           /\ "previousFeedback" \notin DOMAIN chRuns'[id].initialState
           /\ chRuns'[id].message = body.userFeedback]_vars

\* C29 witness: run 1 is suspended at the gate, and a request naming it with action new
\* has started run 2.
C29_Witness ==
  /\ chLast.body.resumeData = "new"
  /\ chLast.body.runId = 1
  /\ chLast.created = 2
  /\ Len(chRuns) = 2
  /\ chRuns[1].status = "suspended"
  /\ chRuns[1].suspendedStep = "quality-check"
  /\ chRuns[1].state # InitialState

(***************************************************************************)
(* The route's answer for a run that failed (specification SpecRun).       *)
(***************************************************************************)
\* C30: every /chat request is answered with status completed, suspended or error, and
\* when a collaborator throws so that the run ends failed, the response status is error
\* and never completed.
C30_FailedRunAnswersError ==
  [][/\ response' # NoResponse => response'.status \in {"completed", "suspended", "error"}
     /\ (runStatus # "failed" /\ runStatus' = "failed") => response'.status = "error"]_vars

(***************************************************************************)
(* The path of a simple message (specification SpecRun).                   *)
(***************************************************************************)
\* C31: for a plan of type simple the branch gives the direct result {source: direct,
\* content: the reasoning, success: true}; the gate hands a direct result on unchanged,
\* without suspending; synthesize-response is then reached with the direct result, and
\* no worker has been invoked while the request was served.
C31_SimpleRunsStraightThrough ==
  [][/\ (pc = "branch" /\ plan.type = "simple") =>
          /\ pc' = "map"
          /\ branchOut' = BranchOutput("direct-response",
                                       AgentResult("direct", plan.reasoning, TRUE))
          /\ invokedWorkers' = << >>
     /\ (pc = "gate" /\ gateIn.source = "direct") =>
          /\ pc' = "synth"
          /\ runStatus' = "running"
          /\ gateOut' = gateIn
          /\ invokedWorkers' = << >>
     /\ (pc = "synth" /\ gateOut.source = "direct" /\ runStatus' = "success") =>
          /\ response'.status = "completed"
          /\ response'.text = "response"]_vars

(***************************************************************************)
(* What classify-intent hands the branch (specification SpecRun).          *)
(***************************************************************************)
\* C32: classify-intent only ever hands plans of type simple or agent to the branch: a
\* classification of type clarify or ambiguous suspends the run at classify-intent, on
\* the first pass and on every reclassification made after a resume.
C32_OnlySimpleOrAgentReachBranch ==
  pc = "branch" => plan.type \in {"simple", "agent"}

(***************************************************************************)
(* What a resume of the gate forwards (specification SpecGate).            *)
(***************************************************************************)
\* C33: a result the gate rejected is never passed on with success = true unless a
\* worker was invoked again on the resume: a resume that invokes no worker (reroute with
\* no target, refine on a result whose source is no registered worker) does not forward
\* the rejected content, the user's feedback or the prompt as a successful result.
C33_NoSuccessWithoutReinvocation ==
  (qcPc = "returned" /\ ~NotResumed /\ Len(qcCalls) = 0) => ~qcOutput.success

DisconnectInFlight(k) ==
  \/ sweep.pc \in {"disconnecting", "fbCleanup"} /\ sweep.client = k
  \/ shutdown.pc = "waiting" /\ (shutdown.fbPending = k \/ \E p \in shutdown.pending : p.client = k)
  \/ \E c \in Callers : call[c].pc = "staleDisconnect" /\ call[c].client = k

\* Client k is what the cache holds for its service id.
IsCached(k) ==
  \/ MapGet(connections, clients[k].id).client = k
  \/ fallbackCache.client = k

\* C35: every client getToolsets has built is the entry cached for its service id, or
\* is disconnected (or being disconnected); and once disconnectAll has returned, with
\* the sweep timer cleared, the cache holds nothing.
C35_BuiltClientsCachedOrDisconnected ==
  /\ \A k \in 1..Len(clients) :
       clients[k].state = "connected" => (IsCached(k) \/ DisconnectInFlight(k))
  /\ (shutdown.pc = "returned" /\ ~cleanupTimer) =>
       (connections = << >> /\ fallbackCache = NoCache)

\* The steps at which a build of getToolsets ends without a connection: no server
\* definition, buildServerDef throwing, or listToolsets / the fallback build rejecting.
FailedBuildOps == {"notConfigured", "threw", "connectFailed"}

\* C36: when a build fails, the cache holds no entry for that service id afterwards
\* and every other entry is as it was.
C36_FailedBuildLeavesNoEntry ==
  [][poolLog'.op \in FailedBuildOps =>
       LET id == poolLog'.id
       IN  /\ ~MapHas(connections', id)
           /\ getRegistryEntry(id).requiresFallback => fallbackCache' = NoCache
           /\ ~getRegistryEntry(id).requiresFallback => fallbackCache' = fallbackCache
           /\ \A j \in AllMcpIdSet \ {id} : MapGet(connections', j) = MapGet(connections, j)]_vars

(***************************************************************************)
(* Activation defaults (specification SpecActivation).                     *)
(***************************************************************************)
\* The registry ids getUserMcpStatuses reports active for the user.
StatusActiveIds(userId) ==
  LET statuses == getUserMcpStatuses(activations, userId)
  IN  {statuses[i].id : i \in {j \in 1..Len(statuses) : statuses[j].active}}

\* The registry ids whose latest setUserMcpActivation for the user was `inactive`.
LastSetInactive(userId) ==
  {r.mcp_id : r \in {x \in RowsOf(activations, userId) : ~x.active}}

\* C37: after any sequence of setUserMcpActivation calls, getUserActiveMcpIds(user) is
\* the set of registry ids getUserMcpStatuses(user) reports active, which is every
\* registered id except those last set inactive for the user.
C37_NoRecordCountsAsActive ==
  \A userId \in ActivationUsers :
    /\ StatusActiveIds(userId) = AllMcpIdSet \ LastSetInactive(userId)
    /\ getUserActiveMcpIds(activations, userId) = StatusActiveIds(userId)

(***************************************************************************)
(* Cache hits (specification SpecToolCache).                               *)
(***************************************************************************)
\* C38: a value returned from the cache is the result of the same tool on an equal
\* input (so two inputs that differ, in nested fields or elsewhere, never share a key).
C38_HitOnlyForEqualInput ==
  tcLast.hit => tcLast.returned = originalExecute(tcLast.tool, tcLast.input)

====
